---- MODULE Spec2Model ----
(***************************************************************************)
(* Two-phase routing and execution engine of the conversation aggregate:   *)
(* Conversation.send_message, the classifiers, the client pool (ModelPool) *)
(* and the load / send / save flow of the HTTP router over Redis.          *)
(*                                                                         *)
(* Python objects live on a heap (heap): a ConversationHistory is a heap   *)
(* object and a Conversation value holds a reference to it, so aliasing    *)
(* between Conversation values that share a history is part of the model.  *)
(* Python strings that are parsed (model identifiers) are sequences of     *)
(* tokens, ":" and " " being tokens of their own.                          *)
(***************************************************************************)
EXTENDS Integers, Sequences, FiniteSets, TLC

(***************************************************************************)
(* Bounds                                                                  *)
(***************************************************************************)
\* number of send_message calls (domain) or HTTP requests in one behaviour
NumCalls == 2
\* most tool rounds (tool call + tool return) one execution run reports
MaxToolRounds == 1
\* most get_model calls one thread makes
MaxCallsPerThread == 2
\* longest available_routes tuple of a Model Classifier
MaxRoutes == 2
\* longest list of tool names the fast model decides on
MaxDecision == 3
\* longest message sequence of a history an operation is applied to
MaxHistory == 2
\* longest list of specs a registry is built from
MaxAvailable == 3
\* most whitespace around one part of a model identifier string
MaxPad == 1
\* most variants of a vendor catalog that is constructed
MaxVariants == 2
\* most stages of a pipeline a stage is appended to
MaxStages == 3

Calls == 1..NumCalls

(***************************************************************************)
(* Optional values: None is the empty sequence, Some(x) a one-element one. *)
(***************************************************************************)
None == <<>>
Some(x) == <<x>>
IsSome(o) == Len(o) = 1
Val(o) == o[1]

(***************************************************************************)
(* domain_type.py                                                          *)
(***************************************************************************)
AIModelVendor == {"anthropic", "openai"}

ConversationStatus == {"active", "archived", "deleted"}

\* ModelRoute members, by value ("vendor:model-id" as a token string)
ANTHROPIC_SONNET == <<"anthropic", ":", "claude-sonnet-4-5-20250929">>
OPENAI_GPT5 == <<"openai", ":", "gpt-5">>
ModelRoute == {ANTHROPIC_SONNET, OPENAI_GPT5}

(***************************************************************************)
(* tools.py                                                                *)
(***************************************************************************)
ALL_TOOLS == {"calculator", "tavily_search"}

(***************************************************************************)
(* Strings: str.partition(":") and str.strip() on token sequences          *)
(***************************************************************************)
FirstSep(s) ==
    IF \E i \in 1..Len(s) : s[i] = ":"
    THEN CHOOSE i \in 1..Len(s) : s[i] = ":" /\ \A j \in 1..(i - 1) : s[j] # ":"
    ELSE 0

partition(s) ==
    LET i == FirstSep(s)
    IN  IF i = 0
        THEN [head |-> s, sep |-> <<>>, tail |-> <<>>]
        ELSE [head |-> SubSeq(s, 1, i - 1), sep |-> <<":">>,
              tail |-> SubSeq(s, i + 1, Len(s))]

RECURSIVE lstrip(_)
lstrip(s) == IF s # <<>> /\ Head(s) = " " THEN lstrip(Tail(s)) ELSE s

RECURSIVE rstrip(_)
rstrip(s) ==
    IF s # <<>> /\ s[Len(s)] = " " THEN rstrip(SubSeq(s, 1, Len(s) - 1)) ELSE s

strip(s) == rstrip(lstrip(s))

(***************************************************************************)
(* model_catalog.py                                                        *)
(***************************************************************************)
Range(f) == {f[i] : i \in DOMAIN f}

\* the catalog document (model_metadata.json): vendor -> available_models
Catalog ==
    [anthropic |->
        << [id |-> "claude-sonnet-4-5", api_id |-> "claude-sonnet-4-5-20250929",
            aliases |-> <<"claude-sonnet-4.5">>],
           [id |-> "claude-3-5-haiku", api_id |-> "claude-3-5-haiku-20241022",
            aliases |-> <<"claude-haiku">>] >>,
     openai |->
        << [id |-> "gpt-5", api_id |-> "gpt-5", aliases |-> <<>>] >>]

ModelSpec(vendor, variant_id) == [vendor |-> vendor, variant_id |-> variant_id]
NoSpec == ModelSpec("", "")

\* ModelVariant.identifiers
identifiers(variant) == {variant.id, variant.api_id} \cup Range(variant.aliases)

\* VendorCatalog._variant_lookup: a dict comprehension, so that the last
\* variant listing an identifier is the one the identifier maps to
_variant_lookup(models) ==
    [ident \in UNION {identifiers(models[i]) : i \in DOMAIN models} |->
        LET last == CHOOSE i \in DOMAIN models :
                       /\ ident \in identifiers(models[i])
                       /\ \A j \in DOMAIN models :
                            ident \in identifiers(models[j]) => j <= i
        IN  models[last]]

\* a result or the exception raised: exc = "" when the call returned
Ok(v) == [exc |-> "", value |-> v]
Raise(e, v) == [exc |-> e, value |-> v]

\* len(all_ids): the identifiers of every variant, one after the other
RECURSIVE IdentifierCount(_)
IdentifierCount(models) ==
    IF models = <<>> THEN 0
    ELSE Cardinality(identifiers(Head(models))) + IdentifierCount(Tail(models))

\* a duplicate check that compares the canonical ids only
check_duplicate_identifiers_by_id(models) ==
    Len(models) = Cardinality({models[i].id : i \in DOMAIN models})

\* VendorCatalog.check_duplicate_identifiers: TRUE when the validator passes,
\* that is when the list of every variant's identifiers has no repetition
check_duplicate_identifiers(models) ==
    IdentifierCount(models)
        = Cardinality(UNION {identifiers(models[i]) : i \in DOMAIN models})

\* VendorCatalog(available_models=...): ValueError from the validator
VendorCatalog(models) ==
    IF check_duplicate_identifiers(models) THEN Ok(models) ELSE Raise("ValueError", <<>>)

\* find_variant handing back the token it was given as the variant id
find_variant_echo(models, identifier) ==
    LET key == strip(identifier)
        lookup == _variant_lookup(models)
    IN  IF Len(key) = 1 /\ key[1] \in DOMAIN lookup
        THEN Ok(key[1])
        ELSE Raise("KeyError", "")

\* VendorCatalog.find_variant on a token string
find_variant(models, identifier) ==
    LET key == strip(identifier)
        lookup == _variant_lookup(models)
    IN  IF Len(key) = 1 /\ key[1] \in DOMAIN lookup
        THEN Ok(lookup[key[1]].id)
        ELSE Raise("KeyError", "")

\* parse_spec looking the vendor up by the text before the colon as it stands
parse_spec_unstripped_vendor(identifier) ==
    LET p == partition(identifier)
        vendor_key == p.head
    IN  IF p.sep = <<>>
        THEN Raise("ValueError", NoSpec)
        ELSE IF ~(Len(vendor_key) = 1 /\ vendor_key[1] \in AIModelVendor)
        THEN Raise("ValueError", NoSpec)
        ELSE IF vendor_key[1] \notin DOMAIN Catalog
        THEN Raise("KeyError", NoSpec)
        ELSE LET variant == find_variant(Catalog[vendor_key[1]], strip(p.tail))
             IN  IF variant.exc # ""
                 THEN Raise(variant.exc, NoSpec)
                 ELSE Ok(ModelSpec(vendor_key[1], variant.value))

\* ModelCatalog.parse_spec
parse_spec(identifier) ==
    LET p == partition(identifier)
        vendor_key == strip(p.head)
    IN  IF p.sep = <<>>
        THEN Raise("ValueError", NoSpec)
        ELSE IF ~(Len(vendor_key) = 1 /\ vendor_key[1] \in AIModelVendor)
        THEN Raise("ValueError", NoSpec)
        ELSE IF vendor_key[1] \notin DOMAIN Catalog
        THEN Raise("KeyError", NoSpec)
        ELSE LET variant == find_variant(Catalog[vendor_key[1]], strip(p.tail))
             IN  IF variant.exc # ""
                 THEN Raise(variant.exc, NoSpec)
                 ELSE Ok(ModelSpec(vendor_key[1], variant.value))

\* the message of the exception parse_spec raises, "" when it returns
parse_spec_message(identifier) ==
    LET p == partition(identifier)
        vendor_key == strip(p.head)
    IN  IF p.sep = <<>>
        THEN "Model identifier must be in 'vendor:model' format"
        ELSE IF ~(Len(vendor_key) = 1 /\ vendor_key[1] \in AIModelVendor)
        THEN "is not a valid AIModelVendor"
        ELSE IF vendor_key[1] \notin DOMAIN Catalog
        THEN "Vendor not registered"
        ELSE IF find_variant(Catalog[vendor_key[1]], strip(p.tail)).exc # ""
        THEN "Model not registered for vendor"
        ELSE ""

\* ModelSpec.to_agent_model: the variant's api_id, KeyError when the spec
\* names no vendor or variant of the catalog
to_agent_model(spec) ==
    IF spec.vendor \notin DOMAIN Catalog
    THEN Raise("KeyError", "")
    ELSE LET models == Catalog[spec.vendor]
             lookup == _variant_lookup(models)
         IN  IF spec.variant_id \in DOMAIN lookup
             THEN Ok(lookup[spec.variant_id].api_id)
             ELSE Raise("KeyError", "")

\* ModelRegistry._deduplicate_and_ensure_default
RECURSIVE Dedup(_, _)
Dedup(v, ordered) ==
    IF v = <<>> THEN ordered
    ELSE IF Head(v) \in Range(ordered)
         THEN Dedup(Tail(v), ordered)
         ELSE Dedup(Tail(v), Append(ordered, Head(v)))

_deduplicate_and_ensure_default(default, v) ==
    Dedup(v, IF default \in Range(v) THEN <<default>> ELSE <<>>)

\* ModelRegistry.from_specs
from_specs(default, available) ==
    [default |-> default,
     available |-> _deduplicate_and_ensure_default(default, <<default>> \o available)]

\* ModelRegistry(catalog=..., default=..., available=...): the constructor
\* validates `available` after `default`
ModelRegistry(default, available) ==
    [default |-> default,
     available |-> _deduplicate_and_ensure_default(default, available)]

\* ModelCatalog.ensure_spec: the vendor's find_variant on the spec's
\* variant_id, whose result is dropped
ensure_spec(spec) ==
    IF spec.vendor \notin DOMAIN Catalog
    THEN Raise("KeyError", NoSpec)
    ELSE LET variant == find_variant(Catalog[spec.vendor], <<spec.variant_id>>)
         IN  IF variant.exc # "" THEN Raise(variant.exc, NoSpec) ELSE Ok(spec)

\* resolve_spec taking every spec of the catalog as allow-listed
resolve_spec_any_catalog_spec(registry, spec) == ensure_spec(spec)

\* ModelRegistry.resolve_spec
resolve_spec(registry, spec) ==
    IF ensure_spec(spec).exc # ""
    THEN ensure_spec(spec)
    ELSE IF spec \notin Range(registry.available)
    THEN Raise("ValueError", NoSpec)
    ELSE Ok(spec)

\* ModelRegistry.resolve_or_default on an optional spec
resolve_or_default(registry, spec) ==
    IF spec = None THEN Ok(registry.default) ELSE resolve_spec(registry, Val(spec))

SonnetSpec == ModelSpec("anthropic", "claude-sonnet-4-5")
HaikuSpec == ModelSpec("anthropic", "claude-3-5-haiku")
Gpt5Spec == ModelSpec("openai", "gpt-5")
\* a spec built by hand that names no variant of the catalog
GhostSpec == ModelSpec("openai", "gpt-0")

\* the registry wired by get_model_registry: a default plus the allow-list
Registry == from_specs(SonnetSpec, <<HaikuSpec, SonnetSpec, Gpt5Spec>>)

\* the registries get_model_registry wires with this default: every model of
\* the catalog when both vendors have an API key or none has, the Anthropic
\* models when only Anthropic has one
Registries == {Registry, from_specs(SonnetSpec, <<SonnetSpec, HaikuSpec>>)}

(***************************************************************************)
(* pipeline.py: a stage is known by its class                              *)
(***************************************************************************)
Stage == {"SuccessStage", "FailedStage", "SkippedStage"}

\* Pipeline.append
Pipeline_append(stages, stage) == Append(stages, stage)

\* Pipeline.succeeded
succeeded(stages) ==
    IF stages = <<>> THEN FALSE
    ELSE \A i \in DOMAIN stages : stages[i] = "SuccessStage"

\* Pipeline.failed
failed(stages) == \E i \in DOMAIN stages : stages[i] = "FailedStage"

(***************************************************************************)
(* domain_value.py                                                         *)
(***************************************************************************)
\* ModelRequest(parts=[UserPromptPart(content=text)])
UserRequest(text) == [kind |-> "request", part |-> "user-prompt", text |-> text]
ToolCall == [kind |-> "response", part |-> "tool-call", text |-> "call"]
ToolReturn == [kind |-> "request", part |-> "tool-return", text |-> "result"]
TextAnswer == [kind |-> "response", part |-> "text", text |-> "answer"]

\* MessageId / ConversationId: RootModel wrappers of a UUID; UUIDs are numbers
\* here, uuid4() drawing the next unused one
MessageId(uuid) == [root |-> uuid]
ConversationId(uuid) == [root |-> uuid]

StoredMessage(id, content) == [id |-> id, content |-> content]

ConversationHistory(id, messages, status) ==
    [id |-> id, messages |-> messages, status |-> status]

\* a history that puts the new message in front of the others
append_message_front(hp, ref, msg) ==
    [heap |-> Append(hp, [hp[ref] EXCEPT !.messages = <<msg>> \o @]),
     ref |-> Len(hp) + 1]

\* the in-place variant a mutable history would have: the receiver itself
\* is extended and handed back
append_message_in_place(hp, ref, msg) ==
    [heap |-> [hp EXCEPT ![ref].messages = Append(@, msg)], ref |-> ref]

\* ConversationHistory.append_message: model_copy allocates a new history
\* object holding (*self.messages, msg); the receiver hp[ref] is not written
append_message(hp, ref, msg) ==
    [heap |-> Append(hp, [hp[ref] EXCEPT !.messages = Append(@, msg)]),
     ref |-> Len(hp) + 1]

\* ConversationHistory.message_content
message_content(h) == [i \in DOMAIN h.messages |-> h.messages[i].content]

(***************************************************************************)
(* model_pool.py                                                           *)
(***************************************************************************)
SeqToSet(s) == {s[i] : i \in DOMAIN s}

\* a key under which "no filter" is the empty tool set
cache_key_none_as_empty(spec, tool_names) ==
    [spec |-> spec,
     tools |-> IF IsSome(tool_names) THEN SeqToSet(Val(tool_names)) ELSE {}]

\* cache_key: (spec, frozenset(tool names)); tool_names is None or a list
cache_key(spec, tool_names) ==
    [spec |-> spec,
     tools |-> IF IsSome(tool_names) THEN SeqToSet(Val(tool_names)) ELSE ALL_TOOLS]

\* tool_funcs without the `if name in ALL_TOOLS` filter
tool_funcs_unfiltered(tool_names) ==
    IF IsSome(tool_names) THEN SeqToSet(Val(tool_names)) ELSE ALL_TOOLS

\* tool_funcs: the callables registered on a new Agent
tool_funcs(tool_names) ==
    IF IsSome(tool_names)
    THEN {name \in SeqToSet(Val(tool_names)) : name \in ALL_TOOLS}
    ELSE ALL_TOOLS

\* Agent(model, deps_type, output_type, tools): a new object, oid its identity
Agent(oid, model, tools) == [oid |-> oid, model |-> model, tools |-> tools]

\* a store that forgets every other entry
CacheStore_alone(c, key, agent) == [k \in {key} |-> agent]

\* self._cache[cache_key] = agent
CacheStore(c, key, agent) ==
    [k \in DOMAIN c \cup {key} |-> IF k = key THEN agent ELSE c[k]]

\* ModelPool.get_model run to completion (it holds no await): the cache
\* after the call, the handle returned, the next free object identity
get_model(c, oid, spec, tool_names) ==
    LET key == cache_key(spec, tool_names)
        model == to_agent_model(spec)
    IN  IF key \in DOMAIN c
        THEN [exc |-> "", cache |-> c, agent |-> c[key], oid |-> oid]
        ELSE IF model.exc # ""
        THEN [exc |-> model.exc, cache |-> c, agent |-> Agent(0, "", {}), oid |-> oid]
        ELSE LET made == Agent(oid, model.value, tool_funcs(tool_names))
             IN  [exc |-> "", cache |-> CacheStore(c, key, made),
                  agent |-> made, oid |-> oid + 1]

(***************************************************************************)
(* conversation.py: classifiers                                            *)
(***************************************************************************)
\* the text ModelClassifier.route hands to the fast model: the content of
\* the latest message, "" for an empty history
user_prompt(h) ==
    IF h.messages = <<>> THEN "" ELSE h.messages[Len(h.messages)].content.text

\* a route() that trusts the decision
ModelClassifier_route_unchecked(classifier, decision) == parse_spec(decision)

\* ModelClassifier.route after the fast model answered `decision`
ModelClassifier_route(classifier, decision) ==
    LET chosen == IF decision \in SeqToSet(classifier.available_routes)
                  THEN decision
                  ELSE classifier.available_routes[1]
    IN  parse_spec(chosen)

\* a route() that hands the decision on as it is
ToolClassifier_route_unfiltered(decision) == decision

\* ToolClassifier.route after the fast model answered `decision`
ToolClassifier_route(decision) ==
    SelectSeq(decision, LAMBDA tool : tool \in ALL_TOOLS)

\* the classifier objects a Conversation may hold
ModelClassifiers == { [available_routes |-> <<OPENAI_GPT5>>] }
ToolClassifiers == { [spec |-> HaikuSpec] }

\* answers of the fast tool-selection model, unknown names included
ToolDecisions ==
    { <<>>, <<"calculator">>, <<"tavily_search", "calculator">>,
      <<"web_scraper", "calculator">> }

(***************************************************************************)
(* conversation.py: the Conversation value                                 *)
(***************************************************************************)
Conversation(history, router, tool_router) ==
    [history |-> history, registry |-> "registry", model_pool |-> "model_pool",
     router |-> router, tool_router |-> tool_router]

\* self.model_copy(update={"history": final_history})
model_copy(self, final_history) == [self EXCEPT !.history = final_history]

\* routing that overrides an explicit spec
UseModelRouter_ignoring_spec(auto_route, spec, router) ==
    auto_route /\ IsSome(router)

\* routing that ignores the auto_route flag
UseModelRouter_ignoring_flag(auto_route, spec, router) ==
    spec = None /\ IsSome(router)

\* line 395: the Model Classifier is asked
UseModelRouter(auto_route, spec, router) ==
    auto_route /\ spec = None /\ IsSome(router)

\* tool routing that ignores the auto_route flag
UseToolRouter_ignoring_flag(auto_route, tool_router) == IsSome(tool_router)

\* line 405: the Tool Classifier is asked
UseToolRouter(auto_route, tool_router) == auto_route /\ IsSome(tool_router)

\* result.new_messages() of one execution run with `rounds` tool rounds
new_messages(rounds) ==
    [i \in 1..(2 * rounds + 1) |->
        IF i = 2 * rounds + 1 THEN TextAnswer
        ELSE IF i % 2 = 1 THEN ToolCall ELSE ToolReturn]

\* line 426: every new message wrapped with a fresh MessageId, in order
response_messages(payloads, first_id) ==
    [i \in DOMAIN payloads |->
        StoredMessage(MessageId(first_id + i - 1), payloads[i])]

\* lines 429-431: the loop appending the response messages one by one
RECURSIVE append_all(_, _, _)
append_all(hp, ref, msgs) ==
    IF msgs = <<>> THEN [heap |-> hp, ref |-> ref]
    ELSE LET one == append_message(hp, ref, Head(msgs))
         IN  append_all(one.heap, one.ref, Tail(msgs))

(***************************************************************************)
(* conversation.py: persistence (Conversation.load / Conversation.save)    *)
(***************************************************************************)
\* key = f"conversation:{conv_id.root}"
RedisKey(conv_id) == <<"conversation:", conv_id.root>>

\* a serialiser that writes the messages newest first
model_dump_json_newest_first(h) ==
    [id |-> h.id.root,
     messages |-> [i \in DOMAIN h.messages |->
                     [id |-> h.messages[Len(h.messages) + 1 - i].id.root,
                      content |-> h.messages[Len(h.messages) + 1 - i].content]],
     status |-> h.status]

\* ConversationHistory.model_dump_json: the JSON document, in which the id
\* wrappers are replaced by their roots
model_dump_json(h) ==
    [id |-> h.id.root,
     messages |-> [i \in DOMAIN h.messages |->
                     [id |-> h.messages[i].id.root,
                      content |-> h.messages[i].content]],
     status |-> h.status]

\* a parser that keeps the id and the status and loses the messages
model_validate_json_without_messages(data) ==
    ConversationHistory(ConversationId(data.id), <<>>, data.status)

\* ConversationHistory.model_validate_json: the history a document describes
model_validate_json(data) ==
    ConversationHistory(
        ConversationId(data.id),
        [i \in DOMAIN data.messages |->
            StoredMessage(MessageId(data.messages[i].id), data.messages[i].content)],
        data.status)

\* redis.get: Some(document) or None for a key never set
redis_get(store, key) == IF key \in DOMAIN store THEN Some(store[key]) ELSE None

\* a store that writes only keys it does not hold yet (SET ... NX)
redis_set_if_absent(store, key, data) ==
    [k \in DOMAIN store \cup {key} |-> IF k \in DOMAIN store THEN store[k] ELSE data]

\* redis.set: the value under `key` is replaced whole
redis_set(store, key, data) ==
    [k \in DOMAIN store \cup {key} |-> IF k = key THEN data ELSE store[k]]

(***************************************************************************)
(* State                                                                   *)
(***************************************************************************)
VARIABLES
    heap,      \* the ConversationHistory objects allocated so far, by reference
    base,      \* the Conversation value the callers were handed
    cache,     \* ModelPool._cache: cache key -> Agent
    nextId,    \* the next unused UUID (uuid4)
    nextOid,   \* the identity of the next Agent object constructed
    frame,     \* per call: the locals of send_message and where it stands
    log,       \* per call: the calls it made on its collaborators, in order
    redis,     \* the key-value store: key -> JSON document
    http,      \* per HTTP request: the handler's locals and where it stands
    saveOrder, \* the requests that saved, in the order of their saves
    thr,       \* per thread: the locals of a get_model call and where it stands
    applied    \* the latest application of a pure operation: input and output

vars ==
    <<heap, base, cache, nextId, nextOid, frame, log, redis, http, saveOrder, thr,
      applied>>

NoAgent == Agent(0, "", {})
NoHistory == ConversationHistory(ConversationId(0), <<>>, "active")
NoConversation == Conversation(0, None, None)

IdleFrame ==
    [pc |-> "idle", self |-> NoConversation, before |-> NoHistory,
     text |-> "", spec_arg |-> None, auto_route |-> FALSE, spec |-> None,
     updated_history |-> 0, tool_names |-> None, model |-> NoAgent,
     result |-> <<>>, ret |-> None, exc |-> "", made |-> {}]

\* send_message returned or raised: its locals are gone, the caller is left
\* with what it passed and what it got
Returned(f, msgs, ret) ==
    [IdleFrame EXCEPT !.pc = "returned", !.self = f.self, !.before = f.before,
                      !.text = f.text, !.result = f.result, !.ret = Some(ret),
                      !.made = f.made \cup {m.id.root : m \in Range(msgs)}]
Raised(f, exc) ==
    [IdleFrame EXCEPT !.pc = "raised", !.self = f.self, !.before = f.before,
                      !.text = f.text, !.spec_arg = f.spec_arg,
                      !.auto_route = f.auto_route, !.exc = exc, !.made = f.made]

\* one call made on a collaborator
Ev(op, hist, text, spec, tools, oid) ==
    [op |-> op, hist |-> hist, text |-> text, spec |-> spec, tools |-> tools,
     oid |-> oid]

IdleRequest ==
    [stage |-> "idle", conversation_id |-> None, model_id |-> None,
     auto_route |-> FALSE, conversation |-> NoConversation, loaded |-> None,
     seen |-> {}, stored_before |-> None, status_code |-> 0,
     response_id |-> None]

IdleThread ==
    [pc |-> "idle", spec |-> NoSpec, tool_names |-> None,
     cache_key |-> cache_key(NoSpec, None), tool_funcs |-> {}, missed |-> FALSE,
     settled |-> FALSE, agent |-> NoAgent, served |-> <<>>]

\* one application of a pure operation
Application(op, input, output) == [op |-> op, input |-> input, output |-> output]
NoApplication == Application("", <<>>, <<>>)

\* the text a caller sends with its c-th call (texts are opaque payloads)
TextPool == <<"2+2?", "hello", "and the weather?", "thanks">>
TextOf(c) == TextPool[((c - 1) % Len(TextPool)) + 1]

ExplicitSpecs == {HaikuSpec, Gpt5Spec, GhostSpec}

\* the ConversationId of the callers' first Conversation value, and the ones
\* HTTP clients supply; uuid4() draws 1, 2, ... and never reaches them
BaseConversationId == ConversationId(100)
ClientConversationIds == {ConversationId(101)}

\* Conversation.start(router=..., tool_router=..., status=...): the ways the
\* callers' first Conversation value was built
Starts ==
    LET routers == {None} \cup {Some(r) : r \in ModelClassifiers}
        tool_routers == {None} \cup {Some(t) : t \in ToolClassifiers}
    IN  {[status |-> "active", router |-> r, tool_router |-> t] :
            r \in routers, t \in tool_routers}
        \cup {[status |-> st, router |-> r, tool_router |-> None] :
                st \in {"archived", "deleted"}, r \in routers \ {None}}

Init ==
    /\ \E start \in Starts :
          /\ heap = <<ConversationHistory(BaseConversationId, <<>>, start.status)>>
          /\ base = Conversation(1, start.router, start.tool_router)
    /\ cache = << >>
    /\ nextId = 1
    /\ nextOid = 1
    /\ frame = [c \in Calls |-> IdleFrame]
    /\ log = [c \in Calls |-> <<>>]
    /\ redis = << >>
    /\ http = [c \in Calls |-> IdleRequest]
    /\ saveOrder = <<>>
    /\ thr = [c \in Calls |-> IdleThread]
    /\ applied = NoApplication

\* the Conversation values a caller holds: the one it was handed and the
\* ones earlier calls returned
Held == {base} \cup {Val(frame[c].ret) : c \in {d \in Calls : frame[d].pc = "returned"}}

(***************************************************************************)
(* Conversation.send_message, one action per phase                         *)
(***************************************************************************)
\* Step 1 (lines 383-391): wrap the user input, append it to the history
Step1(c, self, text, spec, auto_route) ==
    /\ frame[c].pc = "idle"
    /\ LET user_msg == StoredMessage(MessageId(nextId), UserRequest(text))
           updated == append_message(heap, self.history, user_msg)
       IN  /\ heap' = updated.heap
           /\ nextId' = nextId + 1
           /\ frame' = [frame EXCEPT ![c] =
                 [@ EXCEPT !.pc = "phase1a", !.self = self,
                           !.before = heap[self.history], !.text = text,
                           !.spec_arg = spec, !.spec = spec,
                           !.auto_route = auto_route,
                           !.updated_history = updated.ref,
                           !.made = {nextId}]]
           /\ log' = [log EXCEPT ![c] =
                 Append(@, Ev("append_user", updated.ref, text, None, None, 0))]
    /\ UNCHANGED <<base, cache, nextOid, redis, saveOrder, thr, applied>>

\* Phase 1a (lines 395-396): the Model Classifier answers `decision`
Phase1aRoute(c, decision) ==
    LET f == frame[c]
        routed == ModelClassifier_route(Val(f.self.router), decision)
    IN  /\ f.pc = "phase1a"
        /\ UseModelRouter(f.auto_route, f.spec, f.self.router)
        /\ frame' = [frame EXCEPT ![c] =
              IF routed.exc = ""
              THEN [@ EXCEPT !.pc = "phase1b", !.spec = Some(routed.value)]
              ELSE Raised(f, routed.exc)]
        /\ log' = [log EXCEPT ![c] =
              Append(@, Ev("router", f.updated_history,
                           user_prompt(heap[f.updated_history]),
                           IF routed.exc = "" THEN Some(routed.value) ELSE None,
                           None, 0))]
        /\ UNCHANGED <<heap, base, cache, nextId, nextOid, redis, http, saveOrder, thr, applied>>

\* a send_message that degrades to the registry default when routing fails
Phase1aFails_falling_back(c) ==
    LET f == frame[c]
    IN  /\ f.pc = "phase1a"
        /\ UseModelRouter(f.auto_route, f.spec, f.self.router)
        /\ frame' = [frame EXCEPT ![c] =
              [@ EXCEPT !.pc = "phase1b", !.spec = Some(Registry.default)]]
        /\ log' = [log EXCEPT ![c] =
              Append(@, Ev("router", f.updated_history,
                           user_prompt(heap[f.updated_history]), None, None, 0))]
        /\ UNCHANGED <<heap, base, cache, nextId, nextOid, redis, http, saveOrder, thr, applied>>

\* Phase 1a: the fast model's call fails (network or provider error)
Phase1aFails(c) ==
    LET f == frame[c]
    IN  /\ f.pc = "phase1a"
        /\ UseModelRouter(f.auto_route, f.spec, f.self.router)
        /\ frame' = [frame EXCEPT ![c] =
              Raised(f, "ProviderError")]
        /\ log' = [log EXCEPT ![c] =
              Append(@, Ev("router", f.updated_history,
                           user_prompt(heap[f.updated_history]), None, None, 0))]
        /\ UNCHANGED <<heap, base, cache, nextId, nextOid, redis, http, saveOrder, thr, applied>>

\* Phase 1a skipped (lines 395, 399-400): explicit spec or registry default
Phase1aSkip(c) ==
    LET f == frame[c]
    IN  /\ f.pc = "phase1a"
        /\ ~UseModelRouter(f.auto_route, f.spec, f.self.router)
        /\ frame' = [frame EXCEPT ![c] =
              [@ EXCEPT !.pc = "phase1b",
                        !.spec = IF f.spec = None THEN Some(Registry.default)
                                 ELSE f.spec]]
        /\ UNCHANGED <<heap, base, cache, nextId, nextOid, log, redis, http, saveOrder, thr, applied>>

\* Phase 1b (lines 404-406): the Tool Classifier answers `decision`
Phase1bRoute(c, decision) ==
    LET f == frame[c]
        tools == ToolClassifier_route(decision)
    IN  /\ f.pc = "phase1b"
        /\ UseToolRouter(f.auto_route, f.self.tool_router)
        /\ frame' = [frame EXCEPT ![c] =
              [@ EXCEPT !.pc = "phase2", !.tool_names = Some(tools)]]
        /\ log' = [log EXCEPT ![c] =
              Append(@, Ev("tool_router", 0, f.text, None, Some(tools), 0))]
        /\ UNCHANGED <<heap, base, cache, nextId, nextOid, redis, http, saveOrder, thr, applied>>

\* Phase 1b: the fast model's call fails
Phase1bFails(c) ==
    LET f == frame[c]
    IN  /\ f.pc = "phase1b"
        /\ UseToolRouter(f.auto_route, f.self.tool_router)
        /\ frame' = [frame EXCEPT ![c] =
              Raised(f, "ProviderError")]
        /\ log' = [log EXCEPT ![c] =
              Append(@, Ev("tool_router", 0, f.text, None, None, 0))]
        /\ UNCHANGED <<heap, base, cache, nextId, nextOid, redis, http, saveOrder, thr, applied>>

\* Phase 1b skipped (lines 404-405): tool_names stays None
Phase1bSkip(c) ==
    LET f == frame[c]
    IN  /\ f.pc = "phase1b"
        /\ ~UseToolRouter(f.auto_route, f.self.tool_router)
        /\ frame' = [frame EXCEPT ![c] = [@ EXCEPT !.pc = "phase2"]]
        /\ UNCHANGED <<heap, base, cache, nextId, nextOid, log, redis, http, saveOrder, thr, applied>>

\* Phase 2 (line 411): the client pool is asked for (spec, tool_names)
Phase2(c) ==
    LET f == frame[c]
        got == get_model(cache, nextOid, Val(f.spec), f.tool_names)
    IN  /\ f.pc = "phase2"
        /\ cache' = got.cache
        /\ nextOid' = got.oid
        /\ frame' = [frame EXCEPT ![c] =
              IF got.exc = ""
              THEN [@ EXCEPT !.pc = "run", !.model = got.agent]
              ELSE Raised(f, got.exc)]
        /\ log' = [log EXCEPT ![c] =
              Append(@, Ev("get_model", 0, "", f.spec, f.tool_names,
                           got.agent.oid))]
        /\ UNCHANGED <<heap, base, nextId, redis, http, saveOrder, thr, applied>>

\* a run that is given the history the receiver holds
Run_on_receiver_history(c, rounds) ==
    LET f == frame[c]
    IN  /\ f.pc = "run"
        /\ frame' = [frame EXCEPT ![c] =
              [@ EXCEPT !.pc = "step3", !.result = new_messages(rounds)]]
        /\ log' = [log EXCEPT ![c] =
              Append(@, Ev("run", f.self.history,
                           user_prompt(heap[f.self.history]), f.spec,
                           f.tool_names, f.model.oid))]
        /\ UNCHANGED <<heap, base, cache, nextId, nextOid, redis, http, saveOrder, thr, applied>>

\* Phase 2 (lines 414-418): the run returns, after `rounds` tool rounds
Run(c, rounds) ==
    LET f == frame[c]
    IN  /\ f.pc = "run"
        /\ frame' = [frame EXCEPT ![c] =
              [@ EXCEPT !.pc = "step3", !.result = new_messages(rounds)]]
        /\ log' = [log EXCEPT ![c] =
              Append(@, Ev("run", f.updated_history,
                           user_prompt(heap[f.updated_history]), f.spec,
                           f.tool_names, f.model.oid))]
        /\ UNCHANGED <<heap, base, cache, nextId, nextOid, redis, http, saveOrder, thr, applied>>

\* Phase 2: the run fails (network or provider error)
RunFails(c) ==
    LET f == frame[c]
    IN  /\ f.pc = "run"
        /\ frame' = [frame EXCEPT ![c] =
              Raised(f, "ProviderError")]
        /\ log' = [log EXCEPT ![c] =
              Append(@, Ev("run", f.updated_history,
                           user_prompt(heap[f.updated_history]), f.spec,
                           f.tool_names, f.model.oid))]
        /\ UNCHANGED <<heap, base, cache, nextId, nextOid, redis, http, saveOrder, thr, applied>>

\* Steps 3 and 4 (lines 426-436): wrap and append the responses, return
Step3(c) ==
    LET f == frame[c]
        msgs == response_messages(f.result, nextId)
        final == append_all(heap, f.updated_history, msgs)
    IN  /\ f.pc = "step3"
        /\ heap' = final.heap
        /\ nextId' = nextId + Len(msgs)
        /\ frame' = [frame EXCEPT ![c] =
              Returned(f, msgs, model_copy(f.self, final.ref))]
        /\ log' = [log EXCEPT ![c] = <<>>]
        /\ UNCHANGED <<base, cache, nextOid, redis, http, saveOrder, thr, applied>>

\* a caller invokes send_message on a Conversation value it holds
Invoke(c) ==
    \E self \in Held, auto_route \in BOOLEAN,
       spec \in {None} \cup {Some(s) : s \in ExplicitSpecs} :
        /\ Step1(c, self, TextOf(c), spec, auto_route)
        /\ UNCHANGED http

SendMessage(c) ==
    \/ \E decision \in ModelRoute : Phase1aRoute(c, decision)
    \/ Phase1aFails(c)
    \/ Phase1aSkip(c)
    \/ \E decision \in ToolDecisions : Phase1bRoute(c, decision)
    \/ Phase1bFails(c)
    \/ Phase1bSkip(c)
    \/ Phase2(c)
    \/ \E rounds \in 0..MaxToolRounds : Run(c, rounds)
    \/ RunFails(c)
    \/ Step3(c)

Next == \E c \in Calls : Invoke(c) \/ SendMessage(c)

Spec == Init /\ [][Next]_vars

(***************************************************************************)
(* api/routers/conversation.py: POST /conversation/                        *)
(***************************************************************************)
\* the model_id strings clients send: an alias, one without delimiter, one
\* with an unknown model, one with an unknown vendor, and the empty string
ClientModelIds ==
    {<<"anthropic", ":", "claude-haiku">>, <<"fake-nonexistent-model">>,
     <<"openai", ":", "gpt-0">>, <<"acme", ":", "gpt-5">>, <<>>}

\* `if request.model_id:` (line 76): None and the empty string are falsy
Truthy(model_id) == IsSome(model_id) /\ Val(model_id) # <<>>

\* the requests answered 200, and the conversation ids their responses carried
Answered == {r \in Calls : http[r].stage = "done" /\ http[r].status_code = 200}
KnownConversationIds ==
    ClientConversationIds \cup {Val(http[r].response_id) : r \in Answered}

\* a handler that starts a conversation under a fresh id whenever the
\* store has none under the id given
HttpLoad_starting_fresh(r, conversation_id, model_id, auto_route) ==
    LET data == redis_get(redis, RedisKey(Val(conversation_id)))
        found == conversation_id # None /\ data # None
        history ==
            IF found THEN model_validate_json(Val(data))
            ELSE ConversationHistory(ConversationId(nextId), <<>>, "active")
    IN  /\ http[r].stage = "idle"
        /\ heap' = Append(heap, history)
        /\ nextId' = IF found THEN nextId ELSE nextId + 1
        /\ http' = [http EXCEPT ![r] =
              [@ EXCEPT !.stage = "loaded",
                        !.conversation_id = conversation_id,
                        !.model_id = model_id,
                        !.auto_route = auto_route,
                        !.conversation = Conversation(Len(heap) + 1, None, None),
                        !.loaded = IF conversation_id = None THEN None ELSE data,
                        !.seen = SeqToSet(saveOrder)]]
        /\ UNCHANGED <<base, cache, nextOid, frame, log, redis, saveOrder, thr, applied>>

\* a handler that attaches the classifiers to the conversation it builds
HttpLoad_with_classifiers(r, conversation_id, model_id, auto_route) ==
    LET data == redis_get(redis, RedisKey(Val(conversation_id)))
        history ==
            IF conversation_id = None
            THEN ConversationHistory(ConversationId(nextId), <<>>, "active")
            ELSE IF data = None
            THEN ConversationHistory(Val(conversation_id), <<>>, "active")
            ELSE model_validate_json(Val(data))
    IN  /\ http[r].stage = "idle"
        /\ heap' = Append(heap, history)
        /\ nextId' = IF conversation_id = None THEN nextId + 1 ELSE nextId
        /\ http' = [http EXCEPT ![r] =
              [@ EXCEPT !.stage = "loaded",
                        !.conversation_id = conversation_id,
                        !.model_id = model_id,
                        !.auto_route = auto_route,
                        !.conversation =
                            Conversation(Len(heap) + 1,
                                         Some(CHOOSE m \in ModelClassifiers : TRUE),
                                         Some(CHOOSE t \in ToolClassifiers : TRUE)),
                        !.loaded = IF conversation_id = None THEN None ELSE data,
                        !.seen = SeqToSet(saveOrder)]]
        /\ UNCHANGED <<base, cache, nextOid, frame, log, redis, saveOrder, thr, applied>>

\* lines 52-72: the request arrives; the conversation is loaded from the
\* store, or started with the given id when the store has none, or started
\* with a fresh id when the request names none -- never with a classifier
HttpLoad(r, conversation_id, model_id, auto_route) ==
    LET data == redis_get(redis, RedisKey(Val(conversation_id)))
        history ==
            IF conversation_id = None
            THEN ConversationHistory(ConversationId(nextId), <<>>, "active")
            ELSE IF data = None
            THEN ConversationHistory(Val(conversation_id), <<>>, "active")
            ELSE model_validate_json(Val(data))
    IN  /\ http[r].stage = "idle"
        /\ heap' = Append(heap, history)
        /\ nextId' = IF conversation_id = None THEN nextId + 1 ELSE nextId
        /\ http' = [http EXCEPT ![r] =
              [@ EXCEPT !.stage = "loaded",
                        !.conversation_id = conversation_id,
                        !.model_id = model_id,
                        !.auto_route = auto_route,
                        !.conversation = Conversation(Len(heap) + 1, None, None),
                        !.loaded = IF conversation_id = None THEN None ELSE data,
                        !.seen = SeqToSet(saveOrder)]]
        /\ UNCHANGED <<base, cache, nextOid, frame, log, redis, saveOrder, thr, applied>>

\* a handler that goes on without a spec when model_id does not parse
RequestSpec_ignoring_errors(model_id) ==
    IF Truthy(model_id) /\ parse_spec(Val(model_id)).exc = ""
    THEN parse_spec(Val(model_id)) ELSE Ok(NoSpec)

\* lines 75-80: the spec parsed from model_id, when there is one
RequestSpec(model_id) ==
    IF Truthy(model_id) THEN parse_spec(Val(model_id)) ELSE Ok(NoSpec)

\* lines 74-91: model_id parses (or is absent) and send_message is called
HttpSend(r) ==
    LET q == http[r]
        parsed == RequestSpec(q.model_id)
    IN  /\ q.stage = "loaded"
        /\ parsed.exc = ""
        /\ Step1(r, q.conversation, TextOf(r),
                 IF Truthy(q.model_id) THEN Some(parsed.value) ELSE None,
                 q.auto_route)
        /\ http' = [http EXCEPT ![r] = [@ EXCEPT !.stage = "sending"]]

\* lines 76-80: model_id does not parse: 400, nothing called, nothing saved
HttpBadRequest(r) ==
    LET q == http[r]
        parsed == RequestSpec(q.model_id)
    IN  /\ q.stage = "loaded"
        /\ parsed.exc \in {"ValueError", "KeyError"}
        /\ http' = [http EXCEPT ![r] =
              [@ EXCEPT !.stage = "done", !.status_code = 400]]
        /\ UNCHANGED <<heap, base, cache, nextId, nextOid, frame, log, redis,
                       saveOrder, thr, applied>>

\* lines 93-109: send_message returned; the whole history is written under
\* the conversation's key and the response carries the conversation id
HttpSave(r) ==
    LET q == http[r]
        updated == heap[Val(frame[r].ret).history]
        key == RedisKey(updated.id)
    IN  /\ q.stage = "sending"
        /\ frame[r].pc = "returned"
        /\ redis' = redis_set(redis, key, model_dump_json(updated))
        /\ saveOrder' = Append(saveOrder, r)
        /\ http' = [http EXCEPT ![r] =
              [@ EXCEPT !.stage = "done", !.status_code = 200,
                        !.stored_before = redis_get(redis, key),
                        !.response_id = Some(updated.id)]]
        /\ UNCHANGED <<heap, base, cache, nextId, nextOid, frame, log, thr, applied>>

\* a handler that saves what the failed turn had built so far
HttpFail_saving_partial(r) ==
    LET q == http[r]
        f == frame[r]
        partial == [f.before EXCEPT !.messages =
                       Append(@, StoredMessage(MessageId(CHOOSE m \in f.made : TRUE),
                                               UserRequest(f.text)))]
    IN  /\ q.stage = "sending"
        /\ f.pc = "raised"
        /\ redis' = redis_set(redis, RedisKey(partial.id), model_dump_json(partial))
        /\ http' = [http EXCEPT ![r] =
              [@ EXCEPT !.stage = "done",
                        !.status_code = IF f.exc = "ValueError" THEN 400 ELSE 500]]
        /\ UNCHANGED <<heap, base, cache, nextId, nextOid, frame, log,
                       saveOrder, thr, applied>>

\* lines 90-91: send_message raised: a ValueError becomes 400, anything else
\* is the framework's 500; nothing is saved
HttpFail(r) ==
    LET q == http[r]
    IN  /\ q.stage = "sending"
        /\ frame[r].pc = "raised"
        /\ http' = [http EXCEPT ![r] =
              [@ EXCEPT !.stage = "done",
                        !.status_code = IF frame[r].exc = "ValueError"
                                        THEN 400 ELSE 500]]
        /\ UNCHANGED <<heap, base, cache, nextId, nextOid, frame, log, redis,
                       saveOrder, thr, applied>>

\* Conversation.load (conversation.py 293-322): None when the store has no
\* value under the key, else the history the stored document describes
Conversation_load(store, conv_id) ==
    LET data == redis_get(store, RedisKey(conv_id))
    IN  IF data = None THEN None ELSE Some(model_validate_json(Val(data)))

\* the answer of GET /{conversation_id} (lines 112-139)
GetResponse(conversation) ==
    IF conversation = None
    THEN [status_code |-> 404, conversation_id |-> None, message_count |-> 0]
    ELSE [status_code |-> 200, conversation_id |-> Some(Val(conversation).id),
          message_count |-> Len(Val(conversation).messages)]

\* a GET that creates the conversation it does not find
HttpGet_creating(conversation_id) ==
    LET found == Conversation_load(redis, conversation_id)
        fresh == ConversationHistory(conversation_id, <<>>, "active")
    IN  /\ applied' = Application("GET",
                         [conversation_id |-> conversation_id, after |-> saveOrder],
                         GetResponse(IF found = None THEN Some(fresh) ELSE found))
        /\ redis' = IF found = None
                    THEN redis_set(redis, RedisKey(conversation_id), model_dump_json(fresh))
                    ELSE redis
        /\ UNCHANGED <<heap, base, cache, nextId, nextOid, frame, log, http,
                       saveOrder, thr>>

\* GET /{conversation_id}: the conversation is looked up and described, or
\* 404; `after` remembers the saves completed so far
HttpGet(conversation_id) ==
    /\ applied' = Application("GET",
                     [conversation_id |-> conversation_id, after |-> saveOrder],
                     GetResponse(Conversation_load(redis, conversation_id)))
    /\ UNCHANGED <<heap, base, cache, nextId, nextOid, frame, log, redis, http,
                   saveOrder, thr>>

\* a client posts a turn
HttpRequest(r) ==
    \E conversation_id \in {None} \cup {Some(i) : i \in KnownConversationIds},
       model_id \in {None} \cup {Some(m) : m \in ClientModelIds},
       auto_route \in BOOLEAN :
        HttpLoad(r, conversation_id, model_id, auto_route)

HttpTurn(r) ==
    \/ HttpSend(r)
    \/ HttpBadRequest(r)
    \/ Phase1aSkip(r)
    \/ Phase1bSkip(r)
    \/ Phase2(r)
    \/ \E rounds \in 0..MaxToolRounds : Run(r, rounds)
    \/ RunFails(r)
    \/ Step3(r)
    \/ HttpSave(r)
    \/ HttpFail(r)

\* what the store holds when the service comes up: nothing, or a conversation
\* an earlier turn saved
StoredEarlier ==
    model_dump_json(
        ConversationHistory(
            CHOOSE i \in ClientConversationIds : TRUE,
            <<StoredMessage(MessageId(90), UserRequest("hi")),
              StoredMessage(MessageId(91), TextAnswer)>>,
            "active"))

InitHttp ==
    /\ heap = <<ConversationHistory(BaseConversationId, <<>>, "active")>>
    /\ base = Conversation(1, None, None)
    /\ cache = << >>
    /\ nextId = 1
    /\ nextOid = 1
    /\ frame = [c \in Calls |-> IdleFrame]
    /\ log = [c \in Calls |-> <<>>]
    /\ redis \in {<< >>,
                  redis_set(<< >>, RedisKey(ConversationId(StoredEarlier.id)),
                            StoredEarlier)}
    /\ http = [c \in Calls |-> IdleRequest]
    /\ saveOrder = <<>>
    /\ thr = [c \in Calls |-> IdleThread]
    /\ applied = NoApplication

NextHttp == \E r \in Calls : HttpRequest(r) \/ HttpTurn(r)

SpecHttp == InitHttp /\ [][NextHttp]_vars

(***************************************************************************)
(* model_pool.py: ModelPool.get_model called from several threads          *)
(***************************************************************************)
PoolSpecs == {SonnetSpec, GhostSpec}
PoolToolNames ==
    {None, Some(<<"calculator">>), Some(<<"tavily_search", "calculator">>),
     Some(<<"calculator", "tavily_search">>), Some(<<"calculator", "web_scraper">>)}

\* the threads inside the miss branch for `key`
Creating(key) ==
    {u \in Calls : thr[u].pc \in {"create", "store"} /\ thr[u].cache_key = key}

\* what a finished get_model call leaves behind for its caller
Served(q, exc, agent) ==
    [spec |-> q.spec, tool_names |-> q.tool_names, key |-> q.cache_key,
     missed |-> q.missed, settled |-> q.settled, exc |-> exc, agent |-> agent]

Finished(q, exc, agent) ==
    [IdleThread EXCEPT !.served = Append(q.served, Served(q, exc, agent))]

\* lines 91-101: the key and the tool functions are built, the cache is
\* looked up
PoolEnter(t, spec, tool_names) ==
    LET key == cache_key(spec, tool_names)
    IN  /\ thr[t].pc = "idle"
        /\ Len(thr[t].served) < MaxCallsPerThread
        /\ thr' = [thr EXCEPT ![t] =
              [@ EXCEPT !.pc = IF key \in DOMAIN cache THEN "ret" ELSE "create",
                        !.spec = spec, !.tool_names = tool_names,
                        !.cache_key = key,
                        !.tool_funcs = tool_funcs(tool_names),
                        !.missed = key \notin DOMAIN cache,
                        !.settled = key \in DOMAIN cache /\ Creating(key) = {}]]
        /\ UNCHANGED <<heap, base, cache, nextId, nextOid, frame, log, redis,
                       http, saveOrder, applied>>

\* lines 103-111, right-hand side: the api string is resolved and a new
\* Agent constructed; a spec the catalog does not know raises
PoolCreate(t) ==
    LET q == thr[t]
        model == to_agent_model(q.spec)
    IN  /\ q.pc = "create"
        /\ IF model.exc # ""
           THEN /\ thr' = [thr EXCEPT ![t] = Finished(q, model.exc, NoAgent)]
                /\ UNCHANGED nextOid
           ELSE /\ thr' = [thr EXCEPT ![t] =
                      [@ EXCEPT !.pc = "store",
                                !.agent = Agent(nextOid, model.value, q.tool_funcs)]]
                /\ nextOid' = nextOid + 1
        /\ UNCHANGED <<heap, base, cache, nextId, frame, log, redis, http,
                       saveOrder, applied>>

\* line 106: self._cache[cache_key] = <the new Agent>
PoolStore(t) ==
    LET q == thr[t]
    IN  /\ q.pc = "store"
        /\ cache' = CacheStore(cache, q.cache_key, q.agent)
        /\ thr' = [thr EXCEPT ![t] = [@ EXCEPT !.pc = "ret"]]
        /\ UNCHANGED <<heap, base, nextId, nextOid, frame, log, redis, http,
                       saveOrder, applied>>

\* line 113: return self._cache[cache_key]
PoolReturn(t) ==
    LET q == thr[t]
    IN  /\ q.pc = "ret"
        /\ thr' = [thr EXCEPT ![t] =
              IF q.cache_key \in DOMAIN cache
              THEN Finished(q, "", cache[q.cache_key])
              ELSE Finished(q, "KeyError", NoAgent)]
        /\ UNCHANGED <<heap, base, cache, nextId, nextOid, frame, log, redis,
                       http, saveOrder, applied>>

\* get_model run without interruption, as on the event loop
PoolCall(t, spec, tool_names) ==
    LET got == get_model(cache, nextOid, spec, tool_names)
        q == [thr[t] EXCEPT !.spec = spec, !.tool_names = tool_names,
                            !.cache_key = cache_key(spec, tool_names),
                            !.missed = cache_key(spec, tool_names) \notin DOMAIN cache,
                            !.settled = TRUE]
    IN  /\ thr[t].pc = "idle"
        /\ Len(thr[t].served) < MaxCallsPerThread
        /\ cache' = got.cache
        /\ nextOid' = got.oid
        /\ thr' = [thr EXCEPT ![t] = Finished(q, got.exc, got.agent)]
        /\ UNCHANGED <<heap, base, nextId, frame, log, redis, http, saveOrder, applied>>

InitPool == InitHttp /\ redis = << >>

NextThreads ==
    \E t \in Calls :
        \/ \E spec \in PoolSpecs, tool_names \in PoolToolNames :
              PoolEnter(t, spec, tool_names)
        \/ PoolCreate(t)
        \/ PoolStore(t)
        \/ PoolReturn(t)

SpecThreads == InitPool /\ [][NextThreads]_vars

NextPool ==
    \E t \in Calls : \E spec \in PoolSpecs, tool_names \in PoolToolNames :
        PoolCall(t, spec, tool_names)

SpecPool == InitPool /\ [][NextPool]_vars

\* the first client posts a turn while clients read conversations
FirstCall == {c \in Calls : \A d \in Calls : c <= d}

NextGet ==
    \/ \E conversation_id \in KnownConversationIds : HttpGet(conversation_id)
    \/ \E r \in FirstCall : HttpRequest(r) \/ HttpTurn(r)

SpecGet == InitPool /\ [][NextGet]_vars

(***************************************************************************)
(* The pure operations, applied to inputs drawn from bounded sets          *)
(***************************************************************************)
\* the sequences over S of lengths lo..hi
SeqsOf(S, lo, hi) == UNION {[1..n -> S] : n \in lo..hi}

\* the operation is applied, once in a behaviour; nothing else changes
Apply(op, input, output) ==
    /\ applied = NoApplication
    /\ applied' = Application(op, input, output)
    /\ UNCHANGED <<heap, base, cache, nextId, nextOid, frame, log, redis, http,
                   saveOrder, thr>>

\* ModelClassifier(available_routes=...): the validator wants one route at
\* least; RouteDecision.model is a ModelRoute
ApplyModelClassifierRoute ==
    \E routes \in SeqsOf(ModelRoute, 1, MaxRoutes), decision \in ModelRoute :
        Apply("ModelClassifier.route",
              [available_routes |-> routes, decision |-> decision],
              ModelClassifier_route([available_routes |-> routes], decision))

\* ToolDecision.tools is any list of strings, known tool names or not
DecidableToolNames == ALL_TOOLS \cup {"web_scraper"}

ApplyToolClassifierRoute ==
    \E decision \in SeqsOf(DecidableToolNames, 0, MaxDecision) :
        Apply("ToolClassifier.route", decision, Ok(ToolClassifier_route(decision)))

\* the messages and histories the operations on histories are applied to
SomeMessages ==
    {StoredMessage(MessageId(uuid), content) :
        uuid \in {1, 2}, content \in {UserRequest("hi"), TextAnswer}}
SomeHistories ==
    {ConversationHistory(BaseConversationId, messages, status) :
        messages \in SeqsOf(SomeMessages, 0, MaxHistory),
        status \in ConversationStatus}

\* what a caller holding `history` sees after an operation that was given a
\* reference to it returned reference `ref` into heap `hp`
Outcome(hp, ref) ==
    [receiver |-> hp[1], returned |-> hp[ref], same_object |-> ref = 1]

ApplyAppendMessage ==
    \E history \in SomeHistories, msg \in SomeMessages :
        LET done == append_message(<<history>>, 1, msg)
        IN  Apply("append_message", [history |-> history, msg |-> msg],
                  Outcome(done.heap, done.ref))

\* the loop of send_message (lines 429-431): one append per message
ApplyAppendAll ==
    \E history \in SomeHistories, msgs \in SeqsOf(SomeMessages, 0, MaxHistory) :
        LET done == append_all(<<history>>, 1, msgs)
        IN  Apply("append_all", [history |-> history, msgs |-> msgs],
                  Outcome(done.heap, done.ref))

\* the specs and allow-lists a registry is built from
SomeSpecs == {SonnetSpec, HaikuSpec, Gpt5Spec}
SomeAvailable == SeqsOf(SomeSpecs, 0, MaxAvailable)

ApplyFromSpecs ==
    \E default \in SomeSpecs, available \in SomeAvailable :
        Apply("ModelRegistry.from_specs",
              [default |-> default, available |-> available],
              from_specs(default, available))

ApplyModelRegistry ==
    \E default \in SomeSpecs, available \in SomeAvailable :
        Apply("ModelRegistry",
              [default |-> default, available |-> available],
              ModelRegistry(default, available))

\* identifier strings, by their parts: whitespace, a vendor token or none,
\* whitespace, a colon or none, whitespace, a model part, whitespace
Pads == SeqsOf({" "}, 0, MaxPad)
VendorParts == {<<>>} \cup {<<t>> : t \in AIModelVendor \cup {"acme"}}
CatalogTokens ==
    UNION {UNION {identifiers(Catalog[v][i]) : i \in DOMAIN Catalog[v]} :
              v \in DOMAIN Catalog}
ModelParts ==
    {<<>>, <<"gpt-0">>, <<"gpt-5", ":", "gpt-5">>} \cup {<<t>> : t \in CatalogTokens}
IdentifierParts ==
    {<<p1, v, p2, s, p3, m, p4>> :
        p1 \in Pads, v \in VendorParts, p2 \in Pads, s \in {<<>>, <<":">>},
        p3 \in Pads, m \in ModelParts, p4 \in Pads}

RECURSIVE Join(_)
Join(parts) == IF parts = <<>> THEN <<>> ELSE Head(parts) \o Join(Tail(parts))

ApplyParseSpec ==
    \E parts \in IdentifierParts :
        Apply("parse_spec",
              [identifier |-> Join(parts), vendor |-> parts[2], sep |-> parts[4],
               model |-> parts[6], padded |-> {i \in {1, 3, 5, 7} : parts[i] # <<>>}],
              [result |-> parse_spec(Join(parts)),
               message |-> parse_spec_message(Join(parts))])

\* the specs a caller may hand over: of the catalog by canonical id, by an
\* alias, or of no variant at all
AliasSpec == ModelSpec("anthropic", "claude-haiku")
GivenSpecs == SomeSpecs \cup {GhostSpec, AliasSpec}

ApplyResolveOrDefault ==
    \E default \in SomeSpecs,
       available \in SeqsOf(SomeSpecs \cup {GhostSpec}, 0, MaxAvailable),
       spec \in {None} \cup {Some(s) : s \in GivenSpecs} :
        Apply("resolve_or_default",
              [registry |-> from_specs(default, available), spec |-> spec],
              resolve_or_default(from_specs(default, available), spec))

\* variants a vendor catalog is constructed from
ModelTokens == {"m1", "m1-latest", "m2"}
SomeVariants ==
    {[id |-> id, api_id |-> api_id, aliases |-> aliases] :
        id \in ModelTokens, api_id \in ModelTokens,
        aliases \in SeqsOf(ModelTokens, 0, 1)}

\* the catalog is constructed and, when that succeeds, every token looked up
ApplyVendorCatalog ==
    \E models \in SeqsOf(SomeVariants, 0, MaxVariants) :
        Apply("VendorCatalog", models,
              [result |-> VendorCatalog(models),
               found |-> [t \in ModelTokens |->
                            IF VendorCatalog(models).exc = ""
                            THEN find_variant(VendorCatalog(models).value, <<t>>)
                            ELSE Raise("ValueError", "")]])

\* a stage is appended to a pipeline; both pipelines are asked how they fared
ApplyPipelineAppend ==
    \E stages \in SeqsOf(Stage, 0, MaxStages), stage \in Stage :
        LET after == Pipeline_append(stages, stage)
        IN  Apply("Pipeline.append", [stages |-> stages, stage |-> stage],
                  [stages |-> after,
                   was |-> [succeeded |-> succeeded(stages), failed |-> failed(stages)],
                   is |-> [succeeded |-> succeeded(after), failed |-> failed(after)]])

NextFn ==
    \/ ApplyModelClassifierRoute
    \/ ApplyToolClassifierRoute
    \/ ApplyAppendMessage
    \/ ApplyAppendAll
    \/ ApplyFromSpecs
    \/ ApplyModelRegistry
    \/ ApplyParseSpec
    \/ ApplyResolveOrDefault
    \/ ApplyVendorCatalog
    \/ ApplyPipelineAppend

SpecFn == InitPool /\ [][NextFn]_vars

(***************************************************************************)
(* Claims about Conversation.send_message                                  *)
(***************************************************************************)
Started == {c \in Calls : frame[c].pc # "idle"}
InFlight == {c \in Calls : frame[c].pc \notin {"idle", "returned", "raised"}}
HasReturned == {c \in Calls : frame[c].pc = "returned"}
HasRaised == {c \in Calls : frame[c].pc = "raised"}

\* the calls a send_message call made on one collaborator, in order
CallsOn(c, op) == SelectSeq(log[c], LAMBDA e : e.op = op)

\* the history a returned call handed back
ResultOf(c) == heap[Val(frame[c].ret).history]

\* C1: a successful send_message returns a history with the receiver's id and
\* status whose messages are the receiver's messages, then one request
\* message carrying the text, then the run's new messages in the order
\* reported.
C1_ResultIsHistoryPlusTurn ==
    \A c \in HasReturned :
        LET f == frame[c]
            h == ResultOf(c)
            n == Len(f.before.messages)
        IN  /\ h.id = f.before.id
            /\ h.status = f.before.status
            /\ Len(h.messages) = n + 1 + Len(f.result)
            /\ Len(h.messages) > n
            /\ SubSeq(h.messages, 1, n) = f.before.messages
            /\ h.messages[n + 1].content = UserRequest(f.text)
            /\ \A i \in DOMAIN f.result : h.messages[n + 1 + i].content = f.result[i]

\* C1 witness: a call on a non-empty history returned after a run that
\* reported several new messages.
C1_Witness ==
    \E c \in HasReturned :
        /\ frame[c].before.messages # <<>>
        /\ Len(frame[c].result) > 1

\* C2: send_message never modifies its receiver: from the call on, whether
\* it returns or raises, the receiver's history object is what it was at
\* the call, and the returned Conversation holds the receiver's registry,
\* client pool and classifiers.
C2_ReceiverUntouched ==
    /\ \A c \in Started : heap[frame[c].self.history] = frame[c].before
    /\ \A c \in HasReturned :
          LET self == frame[c].self
              ret == Val(frame[c].ret)
          IN  /\ ret.registry = self.registry
              /\ ret.model_pool = self.model_pool
              /\ ret.router = self.router
              /\ ret.tool_router = self.tool_router

\* C2 witness: one call returned and another raised.
C2_Witness == HasReturned # {} /\ HasRaised # {}

\* the calls whose model selection is over and whose inputs are at hand
ModelSelected == {c \in Calls : frame[c].pc \in {"phase1b", "phase2", "run", "step3"}}
ToolsSelected == {c \in Calls : frame[c].pc \in {"run", "step3"}}

\* C3: the execution model is chosen by strict precedence (explicit spec,
\* else the Model Classifier's answer when auto_route is set and one is
\* attached, else the registry default), and the Model Classifier is called
\* if and only if auto_route is set, no explicit spec was given and a
\* classifier is attached.
C3_ModelPrecedence ==
    /\ \A c \in ModelSelected \cup HasRaised :
          LET f == frame[c]
              asked == CallsOn(c, "router")
          IN  /\ Len(asked) <= 1
              /\ Len(asked) = 1 =>
                    f.auto_route /\ f.spec_arg = None /\ IsSome(f.self.router)
    /\ \A c \in ModelSelected :
          LET f == frame[c]
              asked == CallsOn(c, "router")
              routed == f.auto_route /\ f.spec_arg = None /\ IsSome(f.self.router)
          IN  /\ Len(asked) = 1 <=> routed
              /\ f.spec = IF IsSome(f.spec_arg) THEN f.spec_arg
                          ELSE IF routed THEN asked[1].spec
                          ELSE Some(Registry.default)
              /\ \A i \in DOMAIN CallsOn(c, "get_model") :
                    CallsOn(c, "get_model")[i].spec = f.spec

\* C3 witness: the pool was asked for the model the classifier chose in one
\* call, and for the registry default, with a classifier attached, in another.
C3_Witness ==
    \E c, d \in ToolsSelected :
        /\ Len(CallsOn(c, "router")) = 1
        /\ Len(CallsOn(d, "router")) = 0
        /\ IsSome(frame[d].self.router)
        /\ frame[d].spec = Some(Registry.default)

C5_ToolSelection ==
    \A c \in ToolsSelected :
        LET f == frame[c]
            asked == CallsOn(c, "tool_router")
            pooled == CallsOn(c, "get_model")
        IN  /\ Len(pooled) = 1
            /\ pooled[1].oid = f.model.oid
            /\ IF f.auto_route /\ IsSome(f.self.tool_router)
               THEN /\ Len(asked) = 1
                    /\ asked[1].text = f.text
                    /\ pooled[1].tools = asked[1].tools
                    /\ IsSome(pooled[1].tools)
                    /\ Val(pooled[1].tools) = <<>> => f.model.tools = {}
               ELSE /\ asked = <<>>
                    /\ pooled[1].tools = None
                    /\ f.model.tools = ALL_TOOLS

\* C5 witness: one call ran on the client with no tools after the Tool
\* Classifier returned the empty list, another on the all-tools client.
C5_Witness ==
    \E c, d \in ToolsSelected :
        /\ Len(CallsOn(c, "tool_router")) = 1
        /\ CallsOn(c, "get_model")[1].tools = Some(<<>>)
        /\ CallsOn(d, "tool_router") = <<>>
        /\ IsSome(frame[d].self.tool_router)

\* the history a call works on: its updated history, then its result
Working(c) ==
    IF frame[c].pc = "returned" THEN ResultOf(c) ELSE heap[frame[c].updated_history]

\* C10: concurrent send_message calls never observe each other's in-flight
\* changes: at every moment the history a call works on, and the one it
\* returns, is its input history followed only by messages this call
\* created; a message another call created is in it only if it was in the
\* input history already.
C10_NoCrossTalk ==
    \A c \in InFlight \cup HasReturned :
        LET f == frame[c]
            h == Working(c)
            n == Len(f.before.messages)
        IN  /\ Len(h.messages) > n
            /\ SubSeq(h.messages, 1, n) = f.before.messages
            /\ \A i \in (n + 1)..Len(h.messages) : h.messages[i].id.root \in f.made
            /\ \A d \in Calls \ {c} : \A i \in DOMAIN h.messages :
                  h.messages[i].id.root \in frame[d].made => i <= n

\* C10 witness: two calls started on the same Conversation value were in
\* flight together, and one has returned while the other is still running.
C10_Witness ==
    \E c \in HasReturned : \E d \in InFlight :
        /\ frame[c].self = frame[d].self
        /\ frame[d].made # {}
        /\ \A m \in frame[d].made : \E k \in frame[c].made : m < k

(***************************************************************************)
(* Claims about turns over HTTP                                            *)
(***************************************************************************)
\* the position of a request's save among the saves, and the key it wrote
SavePos(r) == CHOOSE i \in DOMAIN saveOrder : saveOrder[i] = r
KeyOf(r) == RedisKey(ResultOf(r).id)

\* the requests that saved under the same key before / after request r
EarlierSavers(r) ==
    {q \in Answered : KeyOf(q) = KeyOf(r) /\ SavePos(q) < SavePos(r)}
LaterSavers(r) ==
    {q \in Answered : KeyOf(q) = KeyOf(r) /\ SavePos(q) > SavePos(r)}

\* the document under r's key right before and right after r's save
StoredBefore(r) == http[r].stored_before
StoredAfter(r) ==
    IF LaterSavers(r) = {} THEN redis_get(redis, KeyOf(r))
    ELSE LET next == CHOOSE q \in LaterSavers(r) :
                        \A p \in LaterSavers(r) : SavePos(q) <= SavePos(p)
         IN  StoredBefore(next)

\* the ids of the messages in a stored document
StoredIds(doc) == {doc.messages[i].id : i \in DOMAIN doc.messages}

\* r and q both loaded before either saved
Overlapping(r, q) == r \notin http[q].seen /\ q \notin http[r].seen

\* C6: two HTTP turns on the same conversation_id that both load before
\* either saves, both answered without error: afterwards the store holds
\* exactly the full history written by the one that saved last, and none of
\* the other turn's user message and responses (last writer wins).
C6_LastWriterWins ==
    \A r, q \in Answered :
        (/\ r # q
         /\ KeyOf(r) = KeyOf(q)
         /\ Overlapping(r, q)
         /\ SavePos(r) < SavePos(q)
         /\ LaterSavers(q) = {})
        => /\ redis_get(redis, KeyOf(q)) = Some(model_dump_json(ResultOf(q)))
           /\ model_dump_json(ResultOf(q)) # model_dump_json(ResultOf(r))
           /\ StoredIds(redis[KeyOf(q)]) \cap frame[r].made = {}
           /\ frame[q].made \subseteq StoredIds(redis[KeyOf(q)])

\* C6 witness: two turns loaded the same stored conversation before either
\* saved, and both have saved.
C6_Witness ==
    \E r, q \in Answered :
        /\ r # q
        /\ KeyOf(r) = KeyOf(q)
        /\ Overlapping(r, q)
        /\ IsSome(http[r].loaded) /\ IsSome(http[q].loaded)

\* r loaded after every earlier save under its key had completed
Sequential(r) == EarlierSavers(r) \subseteq http[r].seen

\* the messages of an optional stored document
StoredMessages(doc) == IF doc = None THEN <<>> ELSE Val(doc).messages

\* C7: a turn that begins after the turns before it have completed leaves in
\* the store the history stored before it followed by its own user message
\* and responses, so the stored history of sequential turns only grows by
\* whole turns (each stored history is a prefix of the next).
C7_SequentialTurnsAccumulate ==
    \A r \in Answered :
        Sequential(r) =>
            LET old == StoredMessages(StoredBefore(r))
                new == StoredMessages(StoredAfter(r))
                n == Len(old)
            IN  /\ IsSome(StoredAfter(r))
                /\ Val(StoredAfter(r)).id = ResultOf(r).id.root
                /\ Len(new) = n + 1 + Len(frame[r].result)
                /\ Len(new) > n
                /\ SubSeq(new, 1, n) = old
                /\ new[n + 1].content = UserRequest(frame[r].text)
                /\ \A i \in DOMAIN frame[r].result :
                      new[n + 1 + i].content = frame[r].result[i]
                /\ {new[i].id : i \in (n + 1)..Len(new)} = frame[r].made

\* C7 witness: on a conversation the store already held, one turn completed,
\* then a second turn on the same id began and completed.
C7_Witness ==
    \E r, q \in Answered :
        /\ KeyOf(r) = KeyOf(q)
        /\ r \in http[q].seen
        /\ IsSome(http[r].loaded)
        /\ Len(StoredMessages(StoredAfter(q))) > Len(StoredMessages(StoredBefore(r))) + 3

(***************************************************************************)
(* Claims about the client pool                                            *)
(***************************************************************************)
\* the get_model calls that have finished, over all threads
AllServed == UNION {Range(thr[t].served) : t \in Calls}
InPool == {t \in Calls : thr[t].pc # "idle"}

\* the state part of C8
C8_CachedClientServed ==
    /\ \A s \in AllServed :
          /\ s.settled => s.exc = "" /\ s.key \in DOMAIN cache /\ cache[s.key] = s.agent
          /\ (s.exc = "" /\ Creating(s.key) = {}) =>
                /\ s.key \in DOMAIN cache
                /\ cache[s.key].tools = s.key.tools \cap ALL_TOOLS
                /\ cache[s.key].model = to_agent_model(s.spec).value
    /\ \A t \in InPool : thr[t].settled => cache[thr[t].cache_key].oid < nextOid

\* the step part of C8: an entry of the cache stays, and changes only by a
\* store under its own key
C8_OtherEntriesIntact ==
    \A k \in DOMAIN cache :
        /\ k \in DOMAIN cache'
        /\ cache'[k] # cache[k] =>
              \E t \in Calls : /\ thr[t].pc = "store" /\ thr[t].cache_key = k
                               /\ thr'[t].pc = "ret" /\ cache'[k] = thr[t].agent

\* C8: get-or-create is safe under concurrent misses: the get_model calls
\* that miss on one key may each construct a client, but once they are
\* through the cache holds one client under that key, built for that key;
\* every get_model that starts afterwards returns that cached client, which
\* is then never replaced; and a store under one key leaves every other
\* entry of the cache as it was.
C8_GetOrCreateSafe == []C8_CachedClientServed /\ [][C8_OtherEntriesIntact]_vars

\* C8 witness: while the cache held another entry, two calls missed on one
\* key and each constructed a client; a call started after both were through
\* got the cached client.
C8_Witness ==
    \E a, b, l \in AllServed :
        /\ a.key = b.key /\ l.key = a.key
        /\ a.missed /\ b.missed /\ a.exc = "" /\ b.exc = ""
        /\ a.agent # b.agent
        /\ l.settled
        /\ \E k \in DOMAIN cache : k # a.key /\ cache[k].oid < a.agent.oid
                                             /\ cache[k].oid < b.agent.oid

\* the tool set a get_model call asks for: None stands for all known tools
NameSet(tool_names) ==
    IF tool_names = None THEN ALL_TOOLS ELSE {Val(tool_names)[i] : i \in DOMAIN Val(tool_names)}

ServedOk == {s \in AllServed : s.exc = ""}

\* C9: over any sequence of get_model calls on one pool, two calls with the
\* same ModelSpec and the same set of tool names (order ignored, None being
\* the set of all known tools) return the identical client, two calls whose
\* tool sets differ return distinct clients, and a client once cached under
\* a key is never replaced.
C9_OneClientPerSpecAndToolSet ==
    /\ \A a, b \in ServedOk :
          /\ (a.spec = b.spec /\ NameSet(a.tool_names) = NameSet(b.tool_names))
                => a.agent = b.agent
          /\ NameSet(a.tool_names) # NameSet(b.tool_names)
                => a.agent.oid # b.agent.oid
    /\ \A a \in ServedOk :
          \E k \in DOMAIN cache :
              /\ k.spec = a.spec
              /\ k.tools = NameSet(a.tool_names)
              /\ cache[k] = a.agent

\* C9 witness: the same client came back for None, for the full list and for
\* the full list in the other order, and another client for a shorter list.
C9_Witness ==
    \E a, b, c, d \in ServedOk :
        /\ a.tool_names = None
        /\ b.tool_names = Some(<<"tavily_search", "calculator">>)
        /\ c.tool_names = Some(<<"calculator", "tavily_search">>)
        /\ d.tool_names = Some(<<"calculator">>)
        /\ a.agent = b.agent /\ b.agent = c.agent /\ d.agent # a.agent

(***************************************************************************)
(* Claims about failures                                                   *)
(***************************************************************************)
\* the requests whose turn failed after send_message was entered
FailedTurns == {r \in Calls : http[r].stage \in {"sending", "done"} /\ frame[r].pc = "raised"}

\* the id of the conversation request r works on
IdOf(r) == heap[http[r].conversation.history].id

\* every document in the store
StoredDocs == {redis[k] : k \in DOMAIN redis}

\* the state part of C11: no message of a failed turn is in the store, and
\* while no save happened since the failed turn loaded, the record under its
\* id is the one it loaded, or still absent
C11_FailedTurnLeavesNoTrace ==
    \A r \in FailedTurns :
        /\ \A doc \in StoredDocs : StoredIds(doc) \cap frame[r].made = {}
        /\ SeqToSet(saveOrder) \subseteq http[r].seen =>
              redis_get(redis, RedisKey(IdOf(r))) =
                 (IF http[r].conversation_id = None THEN None ELSE http[r].loaded)

\* the step part of C11: the store changes only in the step that follows a
\* successful return of send_message, and then to that call's full result
C11_SaveOnlyAfterReturn ==
    redis' # redis =>
        \E r \in Calls :
            /\ http[r].stage = "sending"
            /\ frame[r].pc = "returned"
            /\ http'[r].status_code = 200
            /\ redis' = redis_set(redis, RedisKey(ResultOf(r).id),
                                  model_dump_json(ResultOf(r)))

\* C11: no partial turn is ever persisted: save runs only after send_message
\* returned successfully, so when routing or execution fails after the user
\* message was appended in memory, the record stored for that conversation
\* is what it was before the turn, or still absent.
C11_NoPartialTurnPersisted ==
    []C11_FailedTurnLeavesNoTrace /\ [][C11_SaveOnlyAfterReturn]_vars

\* C11 witness: a turn on a stored conversation failed in the execution run,
\* after its user message was appended, and was answered with an error.
C11_Witness ==
    \E r \in FailedTurns :
        /\ http[r].stage = "done"
        /\ http[r].status_code = 500
        /\ IsSome(http[r].loaded)
        /\ frame[r].made # {}

\* a call on a collaborator that did not come back with a value
FailedCall(e) ==
    \/ e.op = "router" /\ e.spec = None
    \/ e.op = "tool_router" /\ e.tools = None
    \/ e.op = "get_model" /\ e.oid = 0

\* the collaborators of send_message, in the order it reaches them
StepOrder == <<"append_user", "router", "tool_router", "get_model", "run">>
StepRank(op) == CHOOSE i \in DOMAIN StepOrder : StepOrder[i] = op

\* the state part of C12
C12_FailureEndsTheTurn ==
    /\ \A c \in Started : \A i \in DOMAIN log[c] :
          /\ FailedCall(log[c][i]) => i = Len(log[c]) /\ frame[c].pc = "raised"
          /\ \A j \in DOMAIN log[c] :
                i < j => StepRank(log[c][i].op) < StepRank(log[c][j].op)
    /\ \A c \in HasRaised :
          LET l == log[c]
              last == l[Len(l)]
          IN  /\ frame[c].ret = None
              /\ Len(l) > 1
              /\ last.op \in {"router", "tool_router", "get_model", "run"}
              /\ last.op # "run" => FailedCall(last)
              /\ frame[c].exc = IF last.op = "get_model" THEN "KeyError"
                                ELSE "ProviderError"

\* the step part of C12: a call that raised takes no further step
C12_RaisedIsFinal ==
    \A c \in Calls :
        frame[c].pc = "raised" => frame'[c] = frame[c] /\ log'[c] = log[c]

\* C12: a failure of a classifier call or of the execution call propagates
\* out of send_message unchanged: no collaborator is called a second time,
\* nothing falls back to the default model or to all tools, no later step
\* of the turn runs (after a failed Model Classifier the Tool Classifier,
\* the pool and the execution client are never reached), and no
\* Conversation value is returned.
C12_FailurePropagates == []C12_FailureEndsTheTurn /\ [][C12_RaisedIsFinal]_vars

\* C12 witness: one call raised in the Model Classifier, having reached
\* nothing after it, and another raised in the execution run.
C12_Witness ==
    \E c, d \in HasRaised :
        /\ log[c][Len(log[c])].op = "router"
        /\ CallsOn(c, "tool_router") = <<>> /\ CallsOn(c, "get_model") = <<>>
        /\ log[d][Len(log[d])].op = "run"
        /\ frame[d].exc = "ProviderError"

(***************************************************************************)
(* Claims about the classifiers                                            *)
(***************************************************************************)
\* the ModelSpecs a route value "vendor:model" stands for: the variants of
\* that vendor one of whose identifiers is the model token
SpecsOfRoute(route) ==
    {ModelSpec(route[1], variant.id) :
        variant \in {v \in Range(Catalog[route[1]]) : route[3] \in identifiers(v)}}

\* C13: ModelClassifier.route never fails because of the decision it
\* received: a decided route that is in available_routes yields the
\* ModelSpec of that route, any other decision yields the ModelSpec of
\* available_routes[0], and in both cases a ModelSpec is returned, nothing
\* raised.
C13_RouteFallsBackToFirst ==
    applied.op = "ModelClassifier.route" =>
        LET routes == applied.input.available_routes
            decision == applied.input.decision
            allowed == \E i \in DOMAIN routes : routes[i] = decision
        IN  /\ applied.output.exc = ""
            /\ applied.output.value \in
                  SpecsOfRoute(IF allowed THEN decision ELSE routes[1])
            /\ SpecsOfRoute(ANTHROPIC_SONNET) \cap SpecsOfRoute(OPENAI_GPT5) = {}

\* C13 witness: the decision named a route outside available_routes and
\* route() returned the spec of the first available route.
C13_Witness ==
    /\ applied.op = "ModelClassifier.route"
    /\ \A i \in DOMAIN applied.input.available_routes :
          applied.input.available_routes[i] # applied.input.decision
    /\ applied.output.exc = ""
    /\ applied.output.value \in SpecsOfRoute(applied.input.available_routes[1])

\* the positions of a decision that hold a known tool name
KnownAt(decision) == {i \in DOMAIN decision : decision[i] \in ALL_TOOLS}

\* the k-th of them
KthKnown(decision, k) ==
    CHOOSE i \in KnownAt(decision) :
        Cardinality({j \in KnownAt(decision) : j < i}) = k - 1

\* C14: ToolClassifier.route returns exactly the names of the decision that
\* are known tools, in the decision's order: unknown names are left out
\* without an error, every returned name is a known tool, and an empty
\* decision yields an empty list.
C14_ToolRouteFilters ==
    applied.op = "ToolClassifier.route" =>
        LET decision == applied.input
            out == applied.output.value
        IN  /\ applied.output.exc = ""
            /\ DOMAIN out = 1..Cardinality(KnownAt(decision))
            /\ \A k \in DOMAIN out : out[k] = decision[KthKnown(decision, k)]
            /\ \A k \in DOMAIN out : out[k] \in ALL_TOOLS
            /\ decision = <<>> => out = <<>>

\* C14 witness: a decision with an unknown name between two known ones came
\* back as the two known names, in order.
C14_Witness ==
    /\ applied.op = "ToolClassifier.route"
    /\ applied.input = <<"tavily_search", "web_scraper", "calculator">>
    /\ applied.output.value = <<"tavily_search", "calculator">>

(***************************************************************************)
(* Claims about persistence                                                *)
(***************************************************************************)
\* the requests that named a conversation id and have looked it up
Looked == {q \in Calls : http[q].stage # "idle" /\ http[q].conversation_id # None}

\* the history object request q got from load / start_with_id
LoadedHistory(q) == heap[http[q].conversation.history]

\* the saves under q's id that had completed when q looked it up
SavedBefore(q) == {r \in http[q].seen : ResultOf(r).id = Val(http[q].conversation_id)}

SavedIds(saves) == {ResultOf(saves[i]).id : i \in DOMAIN saves}

\* the state part of C16: a lookup of an id nothing was saved under finds
\* nothing and is answered 404; a lookup of a saved id is answered 200
C16_NotFoundIs404 ==
    applied.op = "GET" =>
        LET id == applied.input.conversation_id
            saved == SavedIds(applied.input.after)
        IN  /\ id \notin saved =>
                  /\ applied.output.status_code = 404
                  /\ applied.output.conversation_id = None
            /\ id \in saved =>
                  /\ applied.output.status_code = 200
                  /\ applied.output.conversation_id = Some(id)
            /\ \A k \in DOMAIN redis : \E i \in SavedIds(saveOrder) : k = RedisKey(i)

\* the step part of C16: a lookup changes nothing in the store
C16_LookupLeavesStore == applied' # applied => redis' = redis

\* C16: load on a ConversationId nothing was ever saved under returns the
\* not-found sentinel instead of raising and creates no record; the GET
\* endpoint answers 404 in that case and leaves the store unchanged.
C16_LoadNotFound == []C16_NotFoundIs404 /\ [][C16_LookupLeavesStore]_vars

\* C16 witness: a GET of an id under which a turn was attempted and failed,
\* so that nothing was saved, was answered 404.
C16_Witness ==
    /\ applied.op = "GET"
    /\ applied.output.status_code = 404
    /\ \E r \in FailedTurns :
          /\ http[r].stage = "done"
          /\ http[r].conversation_id = Some(applied.input.conversation_id)

\* the answered requests that named an id the store had no record of
StartedWithId ==
    {r \in Answered : http[r].conversation_id # None /\ http[r].loaded = None}

\* C17: a send request with a conversation_id that has no stored record
\* starts a conversation with exactly that id: once the turn succeeded the
\* record is stored under that id and the response carries the id supplied;
\* a later request with the same id continues the stored conversation
\* instead of starting a fresh one.
C17_StartWithSuppliedId ==
    \A r \in StartedWithId :
        LET id == Val(http[r].conversation_id)
        IN  /\ http[r].response_id = Some(id)
            /\ ResultOf(r).id = id
            /\ RedisKey(id) \in DOMAIN redis
            /\ redis[RedisKey(id)].id = id.root
            /\ \A q \in Looked :
                  (http[q].conversation_id = Some(id) /\ r \in http[q].seen) =>
                      /\ IsSome(http[q].loaded)
                      /\ LoadedHistory(q).id = id
                      /\ LoadedHistory(q).messages # <<>>
                      /\ SavedBefore(q) = {r} =>
                            frame[r].made \subseteq
                               {LoadedHistory(q).messages[i].id.root :
                                   i \in DOMAIN LoadedHistory(q).messages}
                      /\ q \in Answered =>
                            /\ http[q].response_id = Some(id)
                            /\ Len(ResultOf(q).messages) >
                                  Len(LoadedHistory(q).messages)

\* C17 witness: a turn started a conversation with the client's id, and a
\* second turn with that id, begun after the first had saved, succeeded.
C17_Witness ==
    \E r \in StartedWithId : \E q \in Answered :
        /\ http[q].conversation_id = http[r].conversation_id
        /\ r \in http[q].seen
        /\ frame[r].made \subseteq StoredIds(redis[KeyOf(q)])

(***************************************************************************)
(* Claims about invalid model identifiers                                  *)
(***************************************************************************)
\* the requests received so far, and whether parse_spec rejects their
\* model_id
Received == {r \in Calls : http[r].stage # "idle"}
Rejected(model_id) == IsSome(model_id) /\ parse_spec(Val(model_id)).exc # ""

\* request r never got as far as send_message and wrote nothing
NothingRun(r) ==
    /\ http[r].stage \in {"loaded", "done"}
    /\ http[r].stage = "done" => http[r].status_code = 400
    /\ frame[r].pc = "idle"
    /\ log[r] = <<>>
    /\ \A i \in DOMAIN saveOrder : saveOrder[i] # r

\* C18 (as stated): every model_id that parse_spec rejects is answered 400,
\* with no classifier or execution client run and nothing stored.
C18_RejectedModelIdIs400 ==
    \A r \in Received : Rejected(http[r].model_id) => NothingRun(r)

\* the state part of C18 (amended)
C18_NonEmptyRejectedIs400 ==
    \A r \in Received :
        /\ (Rejected(http[r].model_id) /\ Val(http[r].model_id) # <<>>)
              => NothingRun(r)
        /\ (http[r].model_id = Some(<<>>) /\ http[r].stage \in {"sending", "done"})
              => /\ frame[r].pc # "idle"
                 /\ frame[r].pc \notin {"returned", "raised"} => frame[r].spec_arg = None
                 /\ http[r].status_code # 400

\* the step part of C18 (amended): answering 400 leaves the store as it is
C18_BadRequestLeavesStore ==
    \A r \in Calls :
        (http[r].status_code # 400 /\ http'[r].status_code = 400) =>
            redis' = redis /\ cache' = cache

\* C18 (amended): every non-empty model_id that parse_spec rejects (no
\* vendor delimiter, unknown vendor, unknown model) is answered 400, with no
\* classifier or execution client run and the store left unchanged; an
\* empty model_id is not parsed at all: the turn runs as if no model_id had
\* been given.
C18_InvalidModelId == []C18_NonEmptyRejectedIs400 /\ [][C18_BadRequestLeavesStore]_vars

\* C18 witness: a request with an unknown vendor was answered 400 after
\* another turn had saved, and that turn had sent an empty model_id.
C18_Witness ==
    \E r, q \in Received :
        /\ http[r].model_id = Some(<<"acme", ":", "gpt-5">>)
        /\ http[r].stage = "done" /\ http[r].status_code = 400
        /\ q \in http[r].seen
        /\ http[q].model_id = Some(<<>>)

(***************************************************************************)
(* Claims about histories and registries                                   *)
(***************************************************************************)
\* C19: H.append_message(m) returns a new history whose messages are
\* H.messages followed by m, with H's id and status, and leaves H.messages
\* unchanged; hence after a sequence of appends the messages are in the
\* order appended.
C19_AppendMessage ==
    /\ applied.op = "append_message" =>
          LET H == applied.input.history
              m == applied.input.msg
              out == applied.output
          IN  /\ out.returned.messages = H.messages \o <<m>>
              /\ out.returned.id = H.id /\ out.returned.status = H.status
              /\ ~out.same_object
              /\ out.receiver = H
    /\ applied.op = "append_all" =>
          LET H == applied.input.history
              out == applied.output
          IN  /\ out.returned.messages = H.messages \o applied.input.msgs
              /\ out.returned.id = H.id /\ out.returned.status = H.status
              /\ out.receiver = H

\* C19 witness: a message was appended to a history that held two other
\* messages.
C19_Witness ==
    /\ applied.op = "append_message"
    /\ Len(applied.input.history.messages) = 2
    /\ applied.input.history.messages[1] # applied.input.msg
    /\ applied.input.history.messages[2] # applied.input.msg
    /\ Len(applied.output.returned.messages) = 3


(***************************************************************************)
(* Claims about ModelRegistry                                              *)
(***************************************************************************)
\* a registry was built, by the factory or by the constructor
Built == applied.op \in {"ModelRegistry.from_specs", "ModelRegistry"}

\* the position at which x first stands in s
FirstAt(s, x) == CHOOSE i \in 1..Len(s) : s[i] = x /\ \A j \in 1..(i - 1) : s[j] # x

NoDuplicates(s) == \A i, j \in 1..Len(s) : s[i] = s[j] => i = j

\* every spec of list L is in `available`, and two specs other than the
\* default stand in `available` in the order in which L first names them
FirstSeenOrder(D, L, available) ==
    /\ Range(L) \subseteq Range(available)
    /\ Range(available) \subseteq Range(L) \cup {D}
    /\ \A i, j \in 1..Len(available) :
           (i < j /\ available[i] # D /\ available[j] # D)
               => FirstAt(L, available[i]) < FirstAt(L, available[j])

DefaultFirst(D, available) ==
    /\ D \in Range(available)
    /\ available[1] = D

RegistryInvariant(D, L, registry) ==
    /\ registry.default = D
    /\ DefaultFirst(D, registry.available)
    /\ NoDuplicates(registry.available)
    /\ FirstSeenOrder(D, L, registry.available)

\* C20: every registry, built by from_specs or by the constructor from a
\* default D and any list L, has D in `available` and first in it, no spec
\* twice, and the other specs in the order in which L first names them
C20_RegistryInvariant ==
    Built => RegistryInvariant(applied.input.default, applied.input.available,
                               applied.output)

\* C20, as far as the code goes: the four properties hold of every registry
\* from_specs builds, and of every registry the constructor builds from a
\* list that names the default; a registry the constructor builds from a
\* list that does not name the default leaves the default out, while
\* keeping the list free of duplicates and in first-seen order
C20_DefaultFirstWhenListed ==
    Built =>
        LET D == applied.input.default
            L == applied.input.available
        IN  /\ (applied.op = "ModelRegistry.from_specs" \/ D \in Range(L))
                   => RegistryInvariant(D, L, applied.output)
            /\ (applied.op = "ModelRegistry" /\ D \notin Range(L))
                   => /\ D \notin Range(applied.output.available)
                      /\ NoDuplicates(applied.output.available)
                      /\ FirstSeenOrder(D, L, applied.output.available)

\* the constructor was given a list with a duplicate and without the default
C20_Witness ==
    /\ applied.op = "ModelRegistry"
    /\ applied.input.default \notin Range(applied.input.available)
    /\ ~NoDuplicates(applied.input.available)
    /\ Len(applied.output.available) = 2


(***************************************************************************)
(* Claims about ModelCatalog                                               *)
(***************************************************************************)
Parsed == applied.op = "parse_spec"

\* the identifier names variant `variant` of vendor `vendor`: the vendor's
\* token, a colon, and the variant's id, its api_id or one of its aliases
Names(vendor, variant) ==
    /\ applied.input.vendor = <<vendor>>
    /\ applied.input.sep = <<":">>
    /\ \/ applied.input.model = <<variant.id>>
       \/ applied.input.model = <<variant.api_id>>
       \/ \E k \in DOMAIN variant.aliases : applied.input.model = <<variant.aliases[k]>>

\* C21: for every vendor and variant of the catalog, parse_spec returns the
\* spec (vendor, canonical id) for the id, the api_id and every alias, with
\* or without whitespace around the vendor and the model token
C21_AnyIdentifierSameSpec ==
    Parsed =>
        \A vendor \in DOMAIN Catalog : \A i \in DOMAIN Catalog[vendor] :
            Names(vendor, Catalog[vendor][i])
                => applied.output.result = Ok(ModelSpec(vendor, Catalog[vendor][i].id))

\* an alias, whitespace on every side of both tokens
C21_Witness ==
    /\ Parsed
    /\ applied.input.vendor = <<"anthropic">>
    /\ applied.input.sep = <<":">>
    /\ applied.input.model = <<"claude-haiku">>
    /\ applied.input.padded = {1, 3, 5, 7}
    /\ applied.output.result = Ok(HaikuSpec)


\* the identifier has a colon; the text before the first one, and after it
HasColon == \E i \in DOMAIN applied.input.identifier : applied.input.identifier[i] = ":"
ColonAt ==
    CHOOSE i \in DOMAIN applied.input.identifier :
        /\ applied.input.identifier[i] = ":"
        /\ \A j \in 1..(i - 1) : applied.input.identifier[j] # ":"
BeforeColon == SubSeq(applied.input.identifier, 1, ColonAt - 1)
AfterColon ==
    SubSeq(applied.input.identifier, ColonAt + 1, Len(applied.input.identifier))

\* s is the one token t, with whitespace or nothing on either side
IsPadded(s, t) ==
    \E i \in DOMAIN s :
        /\ s[i] = t
        /\ \A j \in DOMAIN s : j # i => s[j] = " "

VendorOf(t) == IsPadded(BeforeColon, t)
VendorRecognized == \E t \in {"anthropic", "openai"} : VendorOf(t)
ModelRecognized ==
    \E t \in {"anthropic", "openai"} :
        /\ VendorOf(t)
        /\ \E i \in DOMAIN Catalog[t] :
              \/ IsPadded(AfterColon, Catalog[t][i].id)
              \/ IsPadded(AfterColon, Catalog[t][i].api_id)
              \/ \E k \in DOMAIN Catalog[t][i].aliases :
                    IsPadded(AfterColon, Catalog[t][i].aliases[k])

Fails(exc, message) ==
    /\ applied.output.result.exc = exc
    /\ applied.output.message = message

\* C22: parse_spec fails by the first check that fails: no colon, the format
\* error; else an unrecognized vendor, the unknown-vendor error; else a
\* model token that names no variant of the vendor, the unknown-model
\* error; it returns a spec only when the three checks pass
C22_FirstFailingCheck ==
    Parsed =>
        /\ ~HasColon
              => Fails("ValueError", "Model identifier must be in 'vendor:model' format")
        /\ (HasColon /\ ~VendorRecognized)
              => Fails("ValueError", "is not a valid AIModelVendor")
        /\ (HasColon /\ VendorRecognized /\ ~ModelRecognized)
              => Fails("KeyError", "Model not registered for vendor")
        /\ (HasColon /\ VendorRecognized /\ ModelRecognized)
              <=> applied.output.result.exc = ""

\* neither the vendor nor the model is known: the vendor is what fails
C22_Witness ==
    /\ Parsed
    /\ applied.input.vendor = <<"acme">>
    /\ applied.input.sep = <<":">>
    /\ applied.input.model = <<"gpt-0">>
    /\ Fails("ValueError", "is not a valid AIModelVendor")


(***************************************************************************)
(* Claims about ModelRegistry.resolve_or_default                           *)
(***************************************************************************)
Resolved == applied.op = "resolve_or_default"

\* the catalog has a variant of the spec's vendor that goes by the spec's
\* variant_id
InCatalog(s) ==
    /\ s.vendor \in DOMAIN Catalog
    /\ \E i \in DOMAIN Catalog[s.vendor] :
          \/ s.variant_id = Catalog[s.vendor][i].id
          \/ s.variant_id = Catalog[s.vendor][i].api_id
          \/ \E k \in DOMAIN Catalog[s.vendor][i].aliases :
                s.variant_id = Catalog[s.vendor][i].aliases[k]

AllowListed(s) ==
    \E i \in DOMAIN applied.input.registry.available :
        applied.input.registry.available[i] = s

\* C23: resolve_or_default(None) is the registry default; for a given spec s
\* it returns s exactly when s is in the catalog and allow-listed, raises
\* the not-allow-listed error (ValueError) when s is in the catalog but not
\* in `available`, and the unknown-model error (KeyError) when s is not in
\* the catalog
C23_ResolveOrDefault ==
    Resolved =>
        IF applied.input.spec = <<>>
        THEN applied.output = Ok(applied.input.registry.default)
        ELSE LET s == applied.input.spec[1]
             IN  /\ (InCatalog(s) /\ AllowListed(s)) <=> applied.output = Ok(s)
                 /\ (InCatalog(s) /\ ~AllowListed(s))
                       <=> applied.output.exc = "ValueError"
                 /\ ~InCatalog(s) <=> applied.output.exc = "KeyError"

\* a spec of the catalog that the registry does not list is refused
C23_Witness ==
    /\ Resolved
    /\ applied.input.spec = <<Gpt5Spec>>
    /\ applied.input.registry.available = <<SonnetSpec, HaikuSpec>>
    /\ applied.output.exc = "ValueError"


(***************************************************************************)
(* Claims about VendorCatalog                                              *)
(***************************************************************************)
Constructing == applied.op = "VendorCatalog"

\* the positions of the variants that go by identifier t
Owners(t) ==
    {i \in DOMAIN applied.input :
        \/ applied.input[i].id = t
        \/ applied.input[i].api_id = t
        \/ \E k \in DOMAIN applied.input[i].aliases : applied.input[i].aliases[k] = t}

Shared == \E t \in ModelTokens : Cardinality(Owners(t)) > 1

\* C24: constructing a VendorCatalog fails when an identifier belongs to two
\* variants; in a catalog that was constructed every identifier belongs to
\* one variant at most, and the lookup by it finds that variant
C24_NoSharedIdentifier ==
    Constructing =>
        /\ Shared => applied.output.result.exc = "ValueError"
        /\ applied.output.result.exc = "" =>
              \A t \in ModelTokens :
                  /\ Cardinality(Owners(t)) <= 1
                  /\ \A i \in Owners(t) :
                        applied.output.found[t] = Ok(applied.input[i].id)
                  /\ Owners(t) = {} => applied.output.found[t].exc = "KeyError"

\* the alias of one variant is the api_id of another
C24_Witness ==
    /\ Constructing
    /\ Len(applied.input) = 2
    /\ applied.input[1].id # applied.input[2].id
    /\ applied.input[1].api_id = applied.input[1].id
    /\ applied.input[2].aliases = <<applied.input[1].api_id>>
    /\ applied.input[2].api_id = applied.input[2].id
    /\ applied.output.result.exc = "ValueError"


(***************************************************************************)
(* Claims about the order of the steps of send_message                     *)
(***************************************************************************)
\* the history ends with the user message of call c, after the receiver's
EndsWithUserMessage(c, h) ==
    /\ Len(h.messages) = Len(frame[c].before.messages) + 1
    /\ SubSeq(h.messages, 1, Len(frame[c].before.messages)) = frame[c].before.messages
    /\ h.messages[Len(h.messages)].content = UserRequest(frame[c].text)

\* some history object holds the messages of h and more after them
Extended(h) ==
    \E ref \in DOMAIN heap :
        /\ Len(heap[ref].messages) > Len(h.messages)
        /\ SubSeq(heap[ref].messages, 1, Len(h.messages)) = h.messages

\* the state part of C25
C25_FixedOrder ==
    \A c \in Started \ HasReturned :
        LET l == log[c]
        IN  /\ l # <<>> /\ l[1].op = "append_user"
            /\ EndsWithUserMessage(c, heap[l[1].hist])
            /\ \A i, j \in DOMAIN l :
                  i < j => StepRank(l[i].op) < StepRank(l[j].op)
            /\ \A i \in DOMAIN l :
                  /\ l[i].op \in {"router", "run"}
                        => l[i].hist = l[1].hist /\ l[i].text = frame[c].text
                  /\ l[i].op = "run" => l[i - 1].op = "get_model"
            /\ frame[c].pc = "step3" <=> l[Len(l)].op = "run" /\ frame[c].pc # "raised"
            /\ ~Extended(heap[l[1].hist])

\* the step part of C25: the responses are appended by the step that
\* follows the run, after the history the run was given
C25_ResponsesLast ==
    \A c \in Calls :
        (frame'[c].pc = "returned" /\ frame[c].pc # "returned")
            => /\ frame[c].pc = "step3"
               /\ log[c][Len(log[c])].op = "run"
               /\ LET given == heap[log[c][Len(log[c])].hist].messages
                      final == heap'[Val(frame'[c].ret).history].messages
                  IN  /\ Len(final) > Len(given)
                      /\ SubSeq(final, 1, Len(given)) = given
                      /\ \A i \in (Len(given) + 1)..Len(final) :
                            final[i].content \in Range(frame[c].result)

\* C25: within one send_message call the steps come in one order: the user
\* message is appended, then the Model Classifier (if used), the Tool
\* Classifier (if used), the pool lookup, the run, the response appends;
\* the Model Classifier and the run are given the history that ends with
\* the new user message; no response is appended before the run returned
C25_StepsInOrder == []C25_FixedOrder /\ [][C25_ResponsesLast]_vars

\* a call that used both classifiers, whose run has returned and whose
\* responses are not appended yet
C25_Witness ==
    \E c \in Calls :
        /\ frame[c].pc = "step3"
        /\ Len(log[c]) = 5
        /\ Len(frame[c].result) > 1


(***************************************************************************)
(* Claims about unknown tool names in ModelPool.get_model                  *)
(***************************************************************************)
KnownTools == {"calculator", "tavily_search"}

\* the names a call asked for
Requested(s) == {Val(s.tool_names)[i] : i \in DOMAIN Val(s.tool_names)}

\* C26: get_model never fails because of an unknown tool name: a call fails
\* only when its spec names no variant of the catalog, whatever the names;
\* the client a call with a list of names constructs and caches has as its
\* tools the known tools among the names, the unknown ones being dropped
C26_UnknownToolsDropped ==
    \A s \in AllServed :
        /\ s.exc # "" <=> s.spec \notin {SonnetSpec, HaikuSpec, Gpt5Spec}
        /\ (s.exc = "" /\ s.tool_names # None) =>
              /\ s.agent.tools = Requested(s) \cap KnownTools
              /\ s.key \in DOMAIN cache
              /\ cache[s.key] = s.agent
              /\ s.key.tools = Requested(s)

\* a call that named a known and an unknown tool constructed a client with
\* the known one
C26_Witness ==
    \E s \in AllServed :
        /\ s.tool_names = Some(<<"calculator", "web_scraper">>)
        /\ s.missed
        /\ s.exc = ""
        /\ s.agent.tools = {"calculator"}


(***************************************************************************)
(* Claims about Pipeline                                                   *)
(***************************************************************************)
Appended == applied.op = "Pipeline.append"

Has(stages, class) == \E i \in DOMAIN stages : stages[i] = class

\* the parts of C27 that do not speak of skipped stages
PipelineOutcome(stages, is) ==
    /\ stages = <<>> => ~is.succeeded
    /\ (stages # <<>> /\ \A i \in DOMAIN stages : stages[i] = "SuccessStage")
          => is.succeeded
    /\ Has(stages, "FailedStage") => ~is.succeeded
    /\ is.failed <=> Has(stages, "FailedStage")
    /\ ~(is.succeeded /\ is.failed)

\* C27: succeeded is False for an empty pipeline, True when every stage is
\* a SuccessStage, False when some stage is a FailedStage, and appending a
\* SkippedStage leaves it as it was; failed is True exactly when some stage
\* is a FailedStage; the two are never both True
C27_SkippedLeavesSucceeded ==
    Appended =>
        /\ PipelineOutcome(applied.input.stages, applied.output.was)
        /\ PipelineOutcome(applied.output.stages, applied.output.is)
        /\ applied.input.stage = "SkippedStage"
              => applied.output.is.succeeded = applied.output.was.succeeded

\* C27, as far as the code goes: everything but the part on skipped stages
\* holds; succeeded is True exactly for a pipeline of SuccessStages, one at
\* least, so that a SkippedStage, appended or met, makes it False
C27_SucceededIsAllSuccess ==
    Appended =>
        /\ PipelineOutcome(applied.input.stages, applied.output.was)
        /\ PipelineOutcome(applied.output.stages, applied.output.is)
        /\ applied.output.stages = Append(applied.input.stages, applied.input.stage)
        /\ applied.output.is.succeeded
              <=> /\ applied.input.stage = "SuccessStage"
                  /\ applied.input.stages = <<>> \/ applied.output.was.succeeded
        /\ applied.input.stage = "SkippedStage" => ~applied.output.is.succeeded

\* a SkippedStage appended to a pipeline that had succeeded
C27_Witness ==
    /\ Appended
    /\ applied.input.stages = <<"SuccessStage", "SuccessStage">>
    /\ applied.input.stage = "SkippedStage"
    /\ applied.output.was.succeeded
    /\ ~applied.output.is.succeeded
    /\ ~applied.output.is.failed


(***************************************************************************)
(* Claims about the status of a conversation                               *)
(***************************************************************************)
\* C28: an ARCHIVED conversation is read-only: no send_message turn on it
\* produces a history with more messages than the archived one
C28_ArchivedReadOnly ==
    \A c \in HasReturned :
        frame[c].before.status = "archived"
            => Len(ResultOf(c).messages) <= Len(frame[c].before.messages)

\* C28, as far as the code goes: send_message does not look at the status;
\* a turn on an archived or deleted conversation returns as one on an
\* active one does, with the status kept and the turn's messages appended
C28_StatusNotLookedAt ==
    \A c \in HasReturned :
        /\ ResultOf(c).status = frame[c].before.status
        /\ Len(ResultOf(c).messages) >= Len(frame[c].before.messages) + 2

\* a turn on an archived conversation returned a longer archived history
C28_Witness ==
    \E c \in HasReturned :
        /\ frame[c].before.status = "archived"
        /\ ResultOf(c).status = "archived"
        /\ Len(ResultOf(c).messages) > Len(frame[c].before.messages)


(***************************************************************************)
(* Claims about the allow-list                                             *)
(***************************************************************************)
\* the specs the execution client of call c was run on
RunOn(c) == {Val(log[c][i].spec) : i \in {j \in DOMAIN log[c] : log[c][j].op = "run"}}

\* C29: whatever registry the deployment wires, the model the execution
\* client is run on is in the registry's allow-list, be it given, routed or
\* the default; a catalog spec that is not allow-listed is never executed
C29_OnlyAllowListedRun ==
    \A registry \in Registries : \A c \in Calls : \A spec \in RunOn(c) :
        \E i \in DOMAIN registry.available : registry.available[i] = spec

\* C29, as far as the code goes: the execution client is run on the given
\* spec when one is given, else on the routed one or on the default, and
\* that spec names a variant of the catalog; the allow-list is not asked
C29_OnlyCatalogSpecsRun ==
    \A c \in Calls : \A spec \in RunOn(c) :
        /\ spec \in {SonnetSpec, HaikuSpec, Gpt5Spec}
        /\ frame[c].spec_arg # None => spec = Val(frame[c].spec_arg)
        /\ (frame[c].spec_arg = None /\ CallsOn(c, "router") = <<>>)
              => spec = SonnetSpec

\* a given spec of the catalog that the Anthropic-only registry does not
\* list was executed
C29_Witness ==
    \E c \in Calls :
        /\ frame[c].spec_arg = Some(Gpt5Spec)
        /\ RunOn(c) = {Gpt5Spec}
        /\ \E registry \in Registries : Gpt5Spec \notin Range(registry.available)


(***************************************************************************)
(* Claims about the classifiers in the HTTP send flow                      *)
(***************************************************************************)
\* the request carried no model_id (or an empty one, which the handler
\* takes for none)
NoModelId(r) == http[r].model_id = <<>> \/ http[r].model_id = <<<<>>>>

\* the client of identity oid is cached with all the tools, for the default
\* model
AllToolsDefaultClient(oid) ==
    \E k \in DOMAIN cache :
        /\ cache[k].oid = oid
        /\ cache[k].tools = {"calculator", "tavily_search"}
        /\ k.spec = SonnetSpec

\* C30: in the HTTP send flow the Conversation is built without a Model
\* Classifier and without a Tool Classifier: no request invokes a
\* classifier, and a request without model_id runs on the registry default
\* with the all-tools client, whether auto_route is true or false
C30_NoClassifierOverHttp ==
    \A r \in Calls :
        http[r].stage # "idle" =>
            /\ http[r].conversation.router = <<>>
            /\ http[r].conversation.tool_router = <<>>
            /\ frame[r].pc # "idle" => frame[r].self = http[r].conversation
            /\ \A i \in DOMAIN log[r] :
                  /\ log[r][i].op \notin {"router", "tool_router"}
                  /\ (NoModelId(r) /\ log[r][i].op \in {"get_model", "run"})
                        => /\ log[r][i].spec = <<SonnetSpec>>
                           /\ log[r][i].tools = <<>>
                           /\ AllToolsDefaultClient(log[r][i].oid)

\* two requests without model_id, one with auto_route and one without,
\* whose runs on the default model have returned
C30_Witness ==
    \E r, s \in Calls :
        /\ http[r].auto_route /\ ~http[s].auto_route
        /\ http[r].model_id = <<>> /\ http[s].model_id = <<>>
        /\ frame[r].pc = "step3" /\ frame[s].pc = "step3"
        /\ log[r][Len(log[r])].spec = <<SonnetSpec>>
        /\ log[s][Len(log[s])].spec = <<SonnetSpec>>

====
